---- MODULE Spec2Model ----
(***************************************************************************)
(* gblobs: a local content-addressable blob store (package gblobs).        *)
(*                                                                         *)
(* Go strings and []byte are sequences of bytes 0..255 throughout: blob    *)
(* payloads, blob ids, file-system paths, keys and file contents.          *)
(* The file system is the pair (dirs, files); paths are slash-separated    *)
(* byte strings relative to the working directory.                         *)
(***************************************************************************)
EXTENDS Integers, Sequences, FiniteSets, TLC

(* ------------------------------------------------------------------ *)
(* Bounds of the model                                                 *)
(* ------------------------------------------------------------------ *)
NumPayloads == 2   \* payloads put by callers: the first NumPayloads of PayloadTable
NumNonces   == 2   \* distinct values rand.Reader may deliver as a GCM nonce
MaxFaults   == 1   \* os.WriteFile failures the environment may inject in one run

(* ------------------------------------------------------------------ *)
(* Byte strings                                                        *)
(* ------------------------------------------------------------------ *)
Slash   == 47
Dot     == 46
DotBlob == <<46, 98, 108, 111, 98>>          \* ".blob"
DotMeta == <<46, 109, 101, 116, 97>>         \* ".meta"
Cwd     == <<46>>                            \* "."

RECURSIVE SumSeq(_)
SumSeq(s) == IF s = <<>> THEN 0 ELSE Head(s) + SumSeq(Tail(s))

Max(S) == CHOOSE x \in S : \A y \in S : y <= x

\* position of the last occurrence of byte c in s, 0 when there is none
LastIndex(s, c) ==
    LET I == {i \in 1..Len(s) : s[i] = c} IN IF I = {} THEN 0 ELSE Max(I)

\* lexicographic byte order (the order os.ReadDir sorts file names in)
RECURSIVE StrLess(_, _)
StrLess(a, b) ==
    IF b = <<>> THEN FALSE
    ELSE IF a = <<>> THEN TRUE
    ELSE IF Head(a) # Head(b) THEN Head(a) < Head(b)
    ELSE StrLess(Tail(a), Tail(b))

RECURSIVE SortNames(_)
SortNames(S) ==
    IF S = {} THEN <<>>
    ELSE LET m == CHOOSE x \in S : \A y \in S \ {x} : StrLess(x, y)
         IN <<m>> \o SortNames(S \ {m})

HasPrefix(s, p) == Len(s) >= Len(p) /\ SubSeq(s, 1, Len(p)) = p

(* ------------------------------------------------------------------ *)
(* path/filepath                                                        *)
(* ------------------------------------------------------------------ *)
\* filepath.Join of a non-empty root and a clean relative path
Join(a, b) == IF a = <<>> THEN b ELSE a \o <<Slash>> \o b

\* filepath.Dir
Dir(p) == IF LastIndex(p, Slash) = 0 THEN Cwd ELSE SubSeq(p, 1, LastIndex(p, Slash) - 1)

\* filepath.Base
Base(p) == SubSeq(p, LastIndex(p, Slash) + 1, Len(p))

\* filepath.Ext: the suffix of the last path element that starts at its last dot
Ext(p) ==
    LET b == Base(p) IN
    IF LastIndex(b, Dot) = 0 THEN <<>> ELSE SubSeq(b, LastIndex(b, Dot), Len(b))

\* p itself and every directory above it, below the working directory
Ancestors(p) == {SubSeq(p, 1, i - 1) : i \in {j \in 1..Len(p) : p[j] = Slash}} \cup {p}

(* ------------------------------------------------------------------ *)
(* id.go                                                                *)
(* ------------------------------------------------------------------ *)
\* the payloads of the model, as bytes: "", "t", "a", "m6"
PayloadTable == << <<>>, <<116>>, <<97>>, <<109, 54>> >>

\* sha256.Sum256, tabulated on the payloads of the model (the real digests)
Sum256(data) ==
    CASE data = <<>> ->
           <<227, 176, 196, 66, 152, 252, 28, 20, 154, 251, 244, 200, 153, 111, 185, 36,
             39, 174, 65, 228, 100, 155, 147, 76, 164, 149, 153, 27, 120, 82, 184, 85>>
      [] data = <<116>> ->
           <<227, 185, 138, 77, 163, 26, 18, 125, 75, 222, 110, 67, 3, 63, 102, 186,
             39, 76, 171, 14, 183, 235, 28, 112, 236, 65, 64, 43, 246, 39, 61, 216>>
      [] data = <<97>> ->
           <<202, 151, 129, 18, 202, 27, 189, 202, 250, 194, 49, 179, 154, 35, 220, 77,
             167, 134, 239, 248, 20, 124, 78, 114, 185, 128, 119, 133, 175, 238, 72, 187>>
      [] data = <<109, 54>> ->
           <<227, 65, 252, 196, 136, 147, 78, 37, 120, 149, 98, 84, 181, 183, 222, 21,
             189, 204, 7, 236, 161, 174, 93, 152, 119, 174, 170, 174, 82, 62, 110, 25>>

\* hex.EncodeToString: two lower-case hex digits per byte
HexDigits == <<48, 49, 50, 51, 52, 53, 54, 55, 56, 57, 97, 98, 99, 100, 101, 102>>
EncodeToString(h) ==
    [i \in 1..(2 * Len(h)) |->
        IF i % 2 = 1 THEN HexDigits[(h[(i + 1) \div 2] \div 16) + 1]
                     ELSE HexDigits[(h[i \div 2] % 16) + 1]]

GenerateBlobID(data) == EncodeToString(Sum256(data))

MinShardLen == 8

\* a sharding into three levels of two characters
BlobIDToPathPairs(blobID) ==
    IF Len(blobID) < MinShardLen THEN blobID \o DotBlob
    ELSE SubSeq(blobID, 1, 2) \o <<Slash>> \o SubSeq(blobID, 3, 4) \o <<Slash>>
         \o SubSeq(blobID, 5, 6) \o <<Slash>> \o SubSeq(blobID, 7, Len(blobID)) \o DotBlob

BlobIDToPath(blobID) ==
    IF Len(blobID) < MinShardLen THEN blobID \o DotBlob
    ELSE SubSeq(blobID, 1, 2) \o <<Slash>> \o SubSeq(blobID, 3, 5) \o <<Slash>>
         \o SubSeq(blobID, 6, 8) \o <<Slash>> \o SubSeq(blobID, 9, Len(blobID)) \o DotBlob

(* ------------------------------------------------------------------ *)
(* compress: gzip                                                       *)
(* ------------------------------------------------------------------ *)
\* A gzip member is modelled by its framing: the two magic bytes, the payload
\* (a stored block) and the ISIZE trailer. The empty payload gives a valid,
\* longer stream.
GzipMagic == <<31, 139>>
CompressBlob(data) == GzipMagic \o data \o <<Len(data) % 256>>

\* a reader that takes any bytes for a gzip stream
DecompressOkUnchecked(c) == Len(c) >= 3
\* gzip.NewReader rejects a bad header; io.ReadAll rejects a bad trailer.
DecompressOk(c) ==
    /\ Len(c) >= 3
    /\ SubSeq(c, 1, 2) = GzipMagic
    /\ c[Len(c)] = (Len(c) - 3) % 256
\* a reader that returns the trailer with the data
DecompressKeepsTrailer(c) == SubSeq(c, 3, Len(c))
DecompressBlob(c) == SubSeq(c, 3, Len(c) - 1)

(* ------------------------------------------------------------------ *)
(* encrypt.go: AES-256-GCM                                              *)
(* ------------------------------------------------------------------ *)
KeyLen    == 32
NonceSize == 12

KeyFromPassword(pw) == [i \in 1..KeyLen |-> IF i <= Len(pw) THEN pw[i] ELSE 0]

\* aes.NewCipher accepts 16, 24 and 32 byte keys only
CipherOk(key) == Len(key) \in {16, 24, 32}

\* The AEAD is modelled as an ideal one: the ciphertext is the plaintext under a
\* keystream of key and nonce, and the tag is a keyed function of nonce and
\* ciphertext that differs between any two keys.
Keystream(key, nonce, i) == (key[1 + (i % Len(key))] + nonce[1] + i) % 256
GcmCipher(key, nonce, data) ==
    [i \in 1..Len(data) |-> (data[i] + Keystream(key, nonce, i)) % 256]
GcmPlain(key, nonce, ct) ==
    [i \in 1..Len(ct) |-> (ct[i] + 256 - Keystream(key, nonce, i)) % 256]
\* a tag that does not depend on the key
GcmTagKeyless(key, nonce, ct) ==
    [i \in 1..Len(key) |-> (SumSeq(nonce) + SumSeq(ct)) % 256]

\* the authentication tag: it binds key, nonce and ciphertext
GcmTag(key, nonce, ct) ==
    [i \in 1..Len(key) |-> (key[i] + SumSeq(nonce) + SumSeq(ct)) % 256]

\* gcm.Seal(nonce, nonce, data, nil): nonce, ciphertext, tag
Seal(key, nonce, data) ==
    nonce \o GcmCipher(key, nonce, data) \o GcmTag(key, nonce, GcmCipher(key, nonce, data))

\* the nonces rand.Reader can deliver
Nonces == {[i \in 1..NonceSize |-> n] : n \in 1..NumNonces}

\* EncryptBlob with the nonce drawn from rand.Reader passed in
EncryptOk(data, key) == Len(key) = 0 \/ CipherOk(key)
EncryptBlob(data, key, nonce) == IF Len(key) = 0 THEN data ELSE Seal(key, nonce, data)

\* a DecryptBlob that does not look at the length of its input
DecryptErrAnyLength(encData, key) ==
    IF Len(key) = 0 THEN ""
    ELSE IF ~CipherOk(key) THEN "cipher"
    ELSE IF Len(encData) < NonceSize THEN ""
    ELSE LET nonce == SubSeq(encData, 1, NonceSize)
             body  == SubSeq(encData, NonceSize + 1, Len(encData))
         IN IF Len(body) < Len(key) THEN "auth"
            ELSE LET ct  == SubSeq(body, 1, Len(body) - Len(key))
                     tag == SubSeq(body, Len(body) - Len(key) + 1, Len(body))
                 IN IF tag = GcmTag(key, nonce, ct) THEN "" ELSE "auth"

\* DecryptBlob: "" | "cipher" (bad key size) | "short" | "auth"
DecryptErr(encData, key) ==
    IF Len(key) = 0 THEN ""
    ELSE IF ~CipherOk(key) THEN "cipher"
    ELSE IF Len(encData) < NonceSize THEN "short"
    ELSE LET nonce == SubSeq(encData, 1, NonceSize)
             body  == SubSeq(encData, NonceSize + 1, Len(encData))
         IN IF Len(body) < Len(key) THEN "auth"
            ELSE LET ct  == SubSeq(body, 1, Len(body) - Len(key))
                     tag == SubSeq(body, Len(body) - Len(key) + 1, Len(body))
                 IN IF tag = GcmTag(key, nonce, ct) THEN "" ELSE "auth"
DecryptBlob(encData, key) ==
    IF Len(key) = 0 THEN encData
    ELSE LET nonce == SubSeq(encData, 1, NonceSize)
             body  == SubSeq(encData, NonceSize + 1, Len(encData))
         IN GcmPlain(key, nonce, SubSeq(body, 1, Len(body) - Len(key)))

(* ------------------------------------------------------------------ *)
(* types.go: BlobType, and its JSON sidecar                             *)
(* ------------------------------------------------------------------ *)
\* time.Time: an instant (seconds) and the offset of its location (minutes)
ZeroTime == [sec |-> 0, zone |-> 0]
UTC(t) == [t EXCEPT !.zone = 0]

\* BlobType{}
ZeroMeta == [Name |-> <<>>, URI |-> <<>>, Length |-> 0, BlobHash |-> <<>>,
             IngestionTime |-> ZeroTime, Owner |-> <<>>]

\* json.MarshalIndent of a BlobType: braces around the six fields in struct
\* order, every string with its length before it.
JsonStr(s) == <<Len(s)>> \o s
MarshalIndent(m) ==
    <<123>> \o JsonStr(m.Name) \o JsonStr(m.URI) \o <<m.Length>> \o JsonStr(m.BlobHash)
            \o <<m.IngestionTime.sec, m.IngestionTime.zone>> \o JsonStr(m.Owner) \o <<125>>

\* json.Unmarshal into a BlobType: [ok, meta]; ok is FALSE on malformed input
ReadStr(b, pos) ==
    IF pos >= 1 /\ pos <= Len(b) /\ pos + b[pos] <= Len(b)
    THEN [ok |-> TRUE, val |-> SubSeq(b, pos + 1, pos + b[pos]), next |-> pos + b[pos] + 1]
    ELSE [ok |-> FALSE, val |-> <<>>, next |-> 0]
Unmarshal(b) ==
    LET bad  == [ok |-> FALSE, meta |-> ZeroMeta]
        name == ReadStr(b, 2)
        uri  == ReadStr(b, name.next)
        hash == ReadStr(b, uri.next + 1)
        own  == ReadStr(b, hash.next + 2)
    IN IF Len(b) < 2 \/ b[1] # 123 THEN bad
       ELSE IF ~name.ok \/ ~uri.ok \/ uri.next > Len(b) THEN bad
       ELSE IF ~hash.ok \/ hash.next + 1 > Len(b) THEN bad
       ELSE IF ~own.ok \/ own.next # Len(b) \/ b[Len(b)] # 125 THEN bad
       ELSE [ok |-> TRUE,
             meta |-> [Name |-> name.val, URI |-> uri.val, Length |-> b[uri.next],
                       BlobHash |-> hash.val,
                       IngestionTime |-> [sec |-> b[hash.next], zone |-> b[hash.next + 1]],
                       Owner |-> own.val]]

(* ------------------------------------------------------------------ *)
(* The file system: package os                                          *)
(* ------------------------------------------------------------------ *)
\* fs = [dirs: the directories, files: path -> content]
EmptyFS == [dirs |-> {}, files |-> <<>>]

IsFile(fs, p) == p \in DOMAIN fs.files
IsDir(fs, p)  == p = Cwd \/ p \in fs.dirs

\* an os.Stat that finds directories only
StatOnlyDirs(fs, p) == IsDir(fs, p)

\* os.Stat succeeds
StatOk(fs, p) == IsFile(fs, p) \/ IsDir(fs, p)

\* os.MkdirAll fails when a path element is a file
MkdirAllOk(fs, p) == \A a \in Ancestors(p) : ~IsFile(fs, a)
MkdirAll(fs, p) == [fs EXCEPT !.dirs = @ \cup Ancestors(p)]

\* pathutil.go
EnsureDirOk(fs, p) == MkdirAllOk(fs, p)
EnsureDir(fs, p) == MkdirAll(fs, p)

\* os.WriteFile (O_CREATE|O_TRUNC) needs the parent directory and no directory at p
WriteFileOk(fs, p) == IsDir(fs, Dir(p)) /\ ~IsDir(fs, p)
WriteFile(fs, p, data) ==
    [fs EXCEPT !.files = [q \in (DOMAIN fs.files) \cup {p} |->
                             IF q = p THEN data ELSE fs.files[q]]]

ReadFileOk(fs, p) == IsFile(fs, p)
ReadFile(fs, p) == fs.files[p]

\* the entries directly inside dir
Children(fs, dir) == {q \in fs.dirs \cup DOMAIN fs.files : q # dir /\ Dir(q) = dir}

\* os.ReadDir: the entry names, sorted by file name
ReadDirOk(fs, dir) == IsDir(fs, dir)
ReadDir(fs, dir) == SortNames({Base(q) : q \in Children(fs, dir)})

\* os.Remove: a file, or an empty directory; anything else is an error that
\* leaves the file system as it is
RemoveOk(fs, p) == IsFile(fs, p) \/ (p \in fs.dirs /\ Children(fs, p) = {})
Remove(fs, p) ==
    IF IsFile(fs, p)
    THEN [fs EXCEPT !.files = [q \in (DOMAIN fs.files) \ {p} |-> fs.files[q]]]
    ELSE IF p \in fs.dirs /\ Children(fs, p) = {} THEN [fs EXCEPT !.dirs = @ \ {p}]
    ELSE fs

\* os.RemoveAll: p and everything below it; absence is no error
Under(q, p) == q = p \/ HasPrefix(q, p \o <<Slash>>)
RemoveAll(fs, p) ==
    [dirs  |-> {q \in fs.dirs : ~Under(q, p)},
     files |-> [q \in {x \in DOMAIN fs.files : ~Under(x, p)} |-> fs.files[q]]]

(* ------------------------------------------------------------------ *)
(* store.go: the traversals                                             *)
(* ------------------------------------------------------------------ *)
\* StoreStats; the float64 average is kept as the fraction it is computed from
ZeroStats == [TotalBlobCount |-> 0, MaxCountPerLevel |-> <<>>,
              AverageCountPerLevel |-> [num |-> 0, den |-> 0]]

\* Stats.visit: acc = [blobs: totalBlobs, obs: the <<depth, cnt>> appended to
\* countsPerLevel in order, maxDepth]; cnt counts every entry of the directory
RECURSIVE StatsVisit(_, _, _, _), StatsEntries(_, _, _, _, _)
StatsEntries(fs, dir, depth, fis, acc) ==
    IF fis = <<>> THEN acc
    ELSE LET full == Join(dir, Head(fis))
             a1   == IF IsDir(fs, full)
                     THEN StatsVisit(fs, full, depth + 1,
                              [acc EXCEPT !.maxDepth = IF depth + 1 > @ THEN depth + 1 ELSE @])
                     ELSE IF Ext(Head(fis)) = DotBlob
                          THEN [acc EXCEPT !.blobs = @ + 1]
                          ELSE acc
         IN StatsEntries(fs, dir, depth, Tail(fis), a1)
StatsVisit(fs, dir, depth, acc) ==
    LET fis == ReadDir(fs, dir)
        a1  == StatsEntries(fs, dir, depth, fis, acc)
    IN IF Len(fis) > 0 THEN [a1 EXCEPT !.obs = Append(@, <<depth, Len(fis)>>)] ELSE a1

\* the tally after the walk: per level the maximum, and total / directories
LevelVals(obs, l) == SelectSeq(obs, LAMBDA o : o[1] = l)
RECURSIVE SumCounts(_)
SumCounts(obs) == IF obs = <<>> THEN 0 ELSE Head(obs)[2] + SumCounts(Tail(obs))
StatsTally(acc) ==
    LET levels == 0..acc.maxDepth
        used   == SelectSeq(acc.obs, LAMBDA o : o[1] \in levels)
    IN [TotalBlobCount |-> acc.blobs,
        MaxCountPerLevel |->
            [k \in 1..(acc.maxDepth + 1) |->
                LET vals == LevelVals(acc.obs, k - 1)
                IN IF Len(vals) = 0 THEN 0
                   ELSE Max({vals[j][2] : j \in 1..Len(vals)})],
        AverageCountPerLevel |->
            IF Len(used) > 0 THEN [num |-> SumCounts(used), den |-> Len(used)]
            ELSE [num |-> 0, den |-> 0]]

\* a Stats that counts every file, sidecars included
StatsCountsFiles(fs, root) ==
    [StatsTally(StatsVisit(fs, root, 0, [blobs |-> 0, obs |-> <<>>, maxDepth |-> 0]))
        EXCEPT !.TotalBlobCount = Cardinality({p \in DOMAIN fs.files : Under(p, root)})]

\* a Stats that counts the blob files that have a sidecar beside them
StatsCountsPaired(fs, root) ==
    [StatsTally(StatsVisit(fs, root, 0, [blobs |-> 0, obs |-> <<>>, maxDepth |-> 0]))
        EXCEPT !.TotalBlobCount =
            Cardinality({p \in DOMAIN fs.files :
                            /\ Under(p, root) /\ Ext(p) = DotBlob
                            /\ IsFile(fs, p \o DotMeta)})]

StatsOf(fs, root) ==
    StatsTally(StatsVisit(fs, root, 0, [blobs |-> 0, obs |-> <<>>, maxDepth |-> 0]))

\* InspectStore.visit: the records of the .blob files whose sidecar reads and parses
RECURSIVE InspectVisit(_, _, _), InspectEntries(_, _, _, _)
InspectEntries(fs, dir, fis, blobs) ==
    IF fis = <<>> THEN blobs
    ELSE LET full == Join(dir, Head(fis))
             b1 == IF IsDir(fs, full) THEN InspectVisit(fs, full, blobs)
                   ELSE IF Ext(Head(fis)) = DotBlob
                        THEN IF ~ReadFileOk(fs, full \o DotMeta) THEN blobs
                             ELSE IF ~Unmarshal(ReadFile(fs, full \o DotMeta)).ok THEN blobs
                             ELSE Append(blobs, Unmarshal(ReadFile(fs, full \o DotMeta)).meta)
                        ELSE blobs
         IN InspectEntries(fs, dir, Tail(fis), b1)
InspectVisit(fs, dir, blobs) == InspectEntries(fs, dir, ReadDir(fs, dir), blobs)

\* a walk that lists a zero record for every object whose sidecar does not load
InspectListsUnreadable(fs, root) ==
    InspectVisit(fs, root, <<>>) \o
    [n \in 1..Cardinality({q \in DOMAIN fs.files :
                              /\ Under(q, root) /\ Ext(q) = DotBlob
                              /\ \/ ~IsFile(fs, q \o DotMeta)
                                 \/ ~Unmarshal(ReadFile(fs, q \o DotMeta)).ok}) |-> ZeroMeta]
InspectOf(fs, root) == InspectVisit(fs, root, <<>>)

(* ------------------------------------------------------------------ *)
(* State                                                                *)
(* ------------------------------------------------------------------ *)
VARIABLES
    fs,       \* the file system
    path,     \* path[i]: LocalStore.path of instance i
    key,      \* key[i]: LocalStore.key of instance i (<<>> is nil)
    pw,       \* the keyOpt arguments so far: pw.made holds the keyOpt of the
              \* CreateStore that made the root directory, pw.inst[i] is the
              \* keyOpt of instance i's last CreateStore or OpenStore
    lock,     \* lock[i]: LocalStore.lock: [w: the writer or 0, r: the readers]
    idx,      \* idx[i]: LocalStore.index is not nil (search-enabled engine)
    docs,     \* the documents of the bleve index under the root: id -> document
    opened,   \* opened[i]: CreateStore or OpenStore has succeeded on instance i
    th,       \* th[t]: the call thread t is in, and its locals
    res,      \* res[t]: what thread t's last completed call returned
    actors,   \* actors[t]: the instance thread t calls
    search,   \* the engine is the search-enabled LocalStore
    faults,   \* os.WriteFile failures injected so far
    first,    \* first[id]: the first put of id that returned the id since the last
              \* delete of id or purge: its name, uri, owner, and whether it
              \* wrote the files (stored) or found the blob file there
    locker    \* locker[id]: the first put of id that took the write lock since
              \* the last delete of id or purge: its thread and name, uri, owner

vars == <<fs, path, key, pw, lock, idx, docs, opened, th, res, actors, search, faults, first, locker>>

Insts    == {1, 2}
Payloads == {PayloadTable[k] : k \in 1..NumPayloads}
Ids      == {GenerateBlobID(PayloadTable[k]) : k \in 1..NumPayloads}
AllIds   == {GenerateBlobID(PayloadTable[k]) : k \in 1..Len(PayloadTable)}

StoreRoot == <<115>>                                       \* "s"
IndexName == <<105, 110, 100, 101, 120, 46, 98, 108, 101, 118, 101>>   \* "index.bleve"
IndexMeta == <<105, 110, 100, 101, 120, 95, 109, 101, 116, 97, 46, 106, 115, 111, 110>>

\* what callers pass as keyOpt ...string: nothing, or the passphrase "pw"
KeyOpts == { <<>>, << <<112, 119>> >> }

\* the passphrases of the callers that re-open a store: "pw", a passphrase of
\* KeyLen bytes, and that passphrase with one more byte
LongPass    == [i \in 1..KeyLen |-> 107]
Passphrases == {<<112, 119>>, LongPass, LongPass \o <<120>>}
OpenOpts    == {<<>>} \cup {<<p>> : p \in Passphrases}

\* the records callers pass; Length and BlobHash are whatever the caller left there
MetaA == [Name |-> <<111, 110, 101>>, URI |-> <<117, 49>>, Length |-> 7,
          BlobHash |-> <<120>>, IngestionTime |-> [sec |-> 5, zone |-> 60],
          Owner |-> <<109, 101>>]
MetaB == [Name |-> <<100, 117, 112>>, URI |-> <<117, 50>>, Length |-> 0,
          BlobHash |-> <<>>, IngestionTime |-> ZeroTime, Owner |-> <<121, 111, 117>>]
Metas == {MetaA, MetaB}

\* name, uri and owner of a record
Names(m) == [Name |-> m.Name, URI |-> m.URI, Owner |-> m.Owner]
NoFirst  == [set |-> FALSE, stored |-> FALSE, names |-> Names(ZeroMeta)]
NoLocker == [set |-> FALSE, t |-> 0, names |-> Names(ZeroMeta)]

\* the locals of a call; wrote counts the files a put has written, n the
\* entries a purge read from the root, the files a delete removed, or the
\* other puts of the same new content under way when a put began. History
\* kept for the properties: gone, the records in the store when a purge began;
\* after and prev, the call the thread made just before this put when it
\* destroyed a record of the put's id ("delete" or "purge"), and that record;
\* after of a delete is "delete" when the thread's call just before it was a
\* delete of the same id that removed both files
Idle == [pc |-> "idle", data |-> <<>>, meta |-> ZeroMeta, id |-> <<>>, full |-> <<>>,
         buf |-> <<>>, ents |-> <<>>, dup |-> FALSE, wrote |-> 0, n |-> 0,
         gone |-> <<>>, after |-> "", prev |-> Names(ZeroMeta)]

\* a returned call: op and its arguments (id, data, meta for a put), err ("" is
\* nil) and where it arose, and the values returned; wrote and dup tell what a
\* put did (files written, blob found), n as in the locals, list the records InspectStore returned or a purge
\* destroyed, prev the record a delete destroyed; after and prev of a put as in
\* its locals
NoRes == [op |-> "", err |-> "", at |-> "", id |-> <<>>, data |-> <<>>, meta |-> ZeroMeta,
          ok |-> FALSE, wrote |-> 0, dup |-> FALSE, n |-> 0, stats |-> ZeroStats,
          list |-> <<>>, after |-> "", prev |-> Names(ZeroMeta)]

ThreadIds == {1, 2, 3}
Threads == DOMAIN actors
Inst(t) == actors[t]

FullPath(i, blobID) == Join(path[i], BlobIDToPath(blobID))
MetaPath(full) == full \o DotMeta
IndexPath(root) == Join(root, IndexName)

\* the environment may fail an os.WriteFile (disk full, permissions)
FaultChoices == IF faults < MaxFaults THEN {FALSE, TRUE} ELSE {FALSE}

Return(t, r) ==
    /\ th' = [th EXCEPT ![t] = Idle]
    /\ res' = [res EXCEPT ![t] = r]

Goto(t, locals) ==
    /\ th' = [th EXCEPT ![t] = locals]
    /\ UNCHANGED res

\* sync.RWMutex
WFree(i)      == lock[i].w = 0 /\ lock[i].r = {}
RFree(i)      == lock[i].w = 0
Lock(i, t)    == [lock EXCEPT ![i].w = t]
Unlock(i)     == [lock EXCEPT ![i].w = 0]
RLock(i, t)   == [lock EXCEPT ![i].r = @ \cup {t}]
RUnlock(i, t) == [lock EXCEPT ![i].r = @ \ {t}]

\* bleve.New at the index path: a fresh index directory, or an error when the
\* path exists already
NewIndexOk(f, root) == ~StatOk(f, IndexPath(root))
NewIndex(f, root) ==
    WriteFile(MkdirAll(f, IndexPath(root)), Join(IndexPath(root), IndexMeta), <<123, 125>>)

\* docs without / with a document
DocsDel(d, id) == [x \in (DOMAIN d) \ {id} |-> d[x]]
DocsPut(d, id, doc) == [x \in (DOMAIN d) \cup {id} |-> IF x = id THEN doc ELSE d[x]]

\* a delete of id, or a purge, has acted
Forget(id) ==
    /\ first' = IF id \in DOMAIN first THEN [first EXCEPT ![id] = NoFirst] ELSE first
    /\ locker' = IF id \in DOMAIN locker THEN [locker EXCEPT ![id] = NoLocker] ELSE locker
ForgetAll ==
    /\ first' = [id \in DOMAIN first |-> NoFirst]
    /\ locker' = [id \in DOMAIN locker |-> NoLocker]

(* ------------------------------------------------------------------ *)
(* Init                                                                 *)
(* ------------------------------------------------------------------ *)
InitWith(acts, nfaults) ==
    /\ fs = EmptyFS
    /\ path = [i \in Insts |-> <<>>]
    /\ key = [i \in Insts |-> <<>>]
    /\ pw = [made |-> <<>>, inst |-> [i \in Insts |-> <<>>]]
    /\ lock = [i \in Insts |-> [w |-> 0, r |-> {}]]
    /\ idx = [i \in Insts |-> FALSE]
    /\ docs = <<>>
    /\ opened = [i \in Insts |-> FALSE]
    /\ actors = acts
    /\ th = [t \in DOMAIN acts |-> Idle]
    /\ res = [t \in DOMAIN acts |-> NoRes]
    /\ search \in BOOLEAN
    /\ faults = nfaults
    /\ first = [id \in Ids |-> NoFirst]
    /\ locker = [id \in Ids |-> NoLocker]

\* one caller, one instance; the environment may fail MaxFaults writes
Init == InitWith(1 :> 1, 0)

(* ------------------------------------------------------------------ *)
(* CreateStore, OpenStore                                               *)
(* ------------------------------------------------------------------ *)
KeyOf(keyOpt) == IF Len(keyOpt) > 0 THEN KeyFromPassword(keyOpt[1]) ELSE <<>>

CreateStore(t, root, keyOpt) ==
    LET i == Inst(t) IN
    /\ t \in Threads /\ th[t].pc = "idle"
    /\ path' = [path EXCEPT ![i] = root]
    /\ key' = [key EXCEPT ![i] = KeyOf(keyOpt)]
    /\ pw' = [made |-> IF ~StatOk(fs, root) /\ EnsureDirOk(fs, root) THEN <<keyOpt>> ELSE pw.made,
              inst |-> [pw.inst EXCEPT ![i] = keyOpt]]
    /\ IF ~EnsureDirOk(fs, root)
       THEN /\ Return(t, [NoRes EXCEPT !.op = "create", !.err = "notdir"])
            /\ UNCHANGED <<fs, idx, docs, opened>>
       ELSE IF ~search
       THEN /\ fs' = EnsureDir(fs, root)
            /\ opened' = [opened EXCEPT ![i] = TRUE]
            /\ Return(t, [NoRes EXCEPT !.op = "create"])
            /\ UNCHANGED <<idx, docs>>
       ELSE IF ~NewIndexOk(EnsureDir(fs, root), root)
       THEN /\ fs' = EnsureDir(fs, root)
            /\ Return(t, [NoRes EXCEPT !.op = "create", !.err = "index"])
            /\ UNCHANGED <<idx, docs, opened>>
       ELSE /\ fs' = NewIndex(EnsureDir(fs, root), root)
            /\ idx' = [idx EXCEPT ![i] = TRUE]
            /\ docs' = <<>>
            /\ opened' = [opened EXCEPT ![i] = TRUE]
            /\ Return(t, [NoRes EXCEPT !.op = "create"])
    /\ UNCHANGED <<lock, actors, search, faults, first, locker>>

\* bleve.Open at the index path: it waits for the file lock of the index, so
\* it returns only when no instance holds the index open, and fails when the
\* directory is not an index
OpenIndexFree == \A j \in Insts : ~idx[j]
OpenIndexOk(f, root) == IsFile(f, Join(IndexPath(root), IndexMeta))

\* an OpenStore that looks at nothing: it records path and key and succeeds
OpenStoreUnchecked(t, root, keyOpt) ==
    LET i == Inst(t) IN
    /\ t \in Threads /\ th[t].pc = "idle"
    /\ path' = [path EXCEPT ![i] = root]
    /\ key' = [key EXCEPT ![i] = KeyOf(keyOpt)]
    /\ pw' = [pw EXCEPT !.inst[i] = keyOpt]
    /\ opened' = [opened EXCEPT ![i] = TRUE]
    /\ Return(t, [NoRes EXCEPT !.op = "open"])
    /\ UNCHANGED <<fs, idx, docs, lock, actors, search, faults, first, locker>>

\* path and key are assigned before the root is looked at; the search-enabled
\* engine then opens the index, or creates it when the root has none
OpenStore(t, root, keyOpt) ==
    LET i == Inst(t) IN
    /\ t \in Threads /\ th[t].pc = "idle"
    /\ path' = [path EXCEPT ![i] = root]
    /\ key' = [key EXCEPT ![i] = KeyOf(keyOpt)]
    /\ pw' = [pw EXCEPT !.inst[i] = keyOpt]
    /\ IF ~StatOk(fs, root)
       THEN /\ Return(t, [NoRes EXCEPT !.op = "open", !.err = "notexist"])
            /\ UNCHANGED <<fs, idx, docs, opened>>
       ELSE IF ~IsDir(fs, root)
       THEN /\ Return(t, [NoRes EXCEPT !.op = "open", !.err = "notdir"])
            /\ UNCHANGED <<fs, idx, docs, opened>>
       ELSE IF ~search
       THEN /\ opened' = [opened EXCEPT ![i] = TRUE]
            /\ Return(t, [NoRes EXCEPT !.op = "open"])
            /\ UNCHANGED <<fs, idx, docs>>
       ELSE IF StatOk(fs, IndexPath(root))
       THEN /\ OpenIndexFree
            /\ IF ~OpenIndexOk(fs, root)
               THEN /\ Return(t, [NoRes EXCEPT !.op = "open", !.err = "index"])
                    /\ UNCHANGED <<fs, idx, docs, opened>>
               ELSE /\ idx' = [idx EXCEPT ![i] = TRUE]
                    /\ opened' = [opened EXCEPT ![i] = TRUE]
                    /\ Return(t, [NoRes EXCEPT !.op = "open"])
                    /\ UNCHANGED <<fs, docs>>
       ELSE /\ fs' = NewIndex(fs, root)
            /\ idx' = [idx EXCEPT ![i] = TRUE]
            /\ docs' = <<>>
            /\ opened' = [opened EXCEPT ![i] = TRUE]
            /\ Return(t, [NoRes EXCEPT !.op = "open"])
    /\ UNCHANGED <<lock, actors, search, faults, first, locker>>

\* the process that holds instance i ends between two calls: its files are
\* closed, and the next process starts from &LocalStore{}
Exit(t) ==
    LET i == Inst(t) IN
    /\ t \in Threads
    /\ \A u \in Threads : Inst(u) = i => th[u].pc = "idle"
    /\ path' = [path EXCEPT ![i] = <<>>]
    /\ key' = [key EXCEPT ![i] = <<>>]
    /\ pw' = [pw EXCEPT !.inst[i] = <<>>]
    /\ idx' = [idx EXCEPT ![i] = FALSE]
    /\ opened' = [opened EXCEPT ![i] = FALSE]
    /\ res' = [u \in Threads |-> IF Inst(u) = i THEN NoRes ELSE res[u]]
    /\ UNCHANGED <<fs, lock, docs, th, actors, search, faults, first, locker>>

(* ------------------------------------------------------------------ *)
(* PutBlob                                                              *)
(* ------------------------------------------------------------------ *)
PutRes(t, err, at) ==
    [NoRes EXCEPT !.op = "put", !.err = err, !.at = at,
                  !.id = IF err = "" THEN th[t].id ELSE <<>>,
                  !.data = th[t].data, !.meta = th[t].meta,
                  !.wrote = th[t].wrote, !.dup = th[t].dup, !.n = th[t].n,
                  !.after = th[t].after, !.prev = th[t].prev]

\* the record of blobID that the call thread t made last destroyed
Before(t, blobID) ==
    LET r    == res[t]
        hits == {k \in 1..Len(r.list) : r.list[k].BlobHash = blobID}
    IN IF r.op = "delete" /\ r.id = blobID /\ r.prev # Names(ZeroMeta)
       THEN [after |-> "delete", prev |-> r.prev]
       ELSE IF r.op = "purge" /\ r.err = "" /\ hits # {}
       THEN [after |-> "purge", prev |-> Names(r.list[CHOOSE k \in hits : TRUE])]
       ELSE [after |-> "", prev |-> Names(ZeroMeta)]

\* the puts of blobID by other threads of the instance that have not yet
\* written when thread t begins a put of it, the blob being absent
Racing(t, blobID) ==
    IF IsFile(fs, FullPath(Inst(t), blobID)) THEN 0
    ELSE Cardinality({u \in Threads \ {t} :
                         /\ Inst(u) = Inst(t)
                         /\ th[u].pc \in {"put_lock", "put_blob"}
                         /\ th[u].id = blobID})

\* a PutBlob that takes the id from the bytes it is about to store: the
\* compressed payload as the instance's key seals it
PutBlobHashesSealed(t, data, meta) ==
    LET i      == Inst(t)
        blobID == EncodeToString([k \in 1..KeyLen |->
                      (SumSeq(CompressBlob(data)) + SumSeq(key[i]) + k) % 256])
        full   == FullPath(i, blobID)
        me     == [Idle EXCEPT !.data = data, !.meta = meta, !.id = blobID, !.full = full,
                               !.n = Racing(t, blobID),
                               !.after = Before(t, blobID).after,
                               !.prev = Before(t, blobID).prev]
    IN
    /\ t \in Threads /\ th[t].pc = "idle"
    /\ IF ~EnsureDirOk(fs, Dir(full))
       THEN /\ Return(t, [NoRes EXCEPT !.op = "put", !.err = "notdir", !.at = "mkdir",
                                        !.data = data, !.meta = meta])
            /\ UNCHANGED fs
       ELSE /\ fs' = EnsureDir(fs, Dir(full))
            /\ Goto(t, [me EXCEPT !.pc = "put_lock"])
    /\ UNCHANGED <<path, key, pw, lock, idx, docs, opened, actors, search, faults, first, locker>>

\* blobID, fullPath, EnsureDir(dir): before the lock is taken
PutBlob(t, data, meta) ==
    LET i      == Inst(t)
        blobID == GenerateBlobID(data)
        full   == FullPath(i, blobID)
        me     == [Idle EXCEPT !.data = data, !.meta = meta, !.id = blobID, !.full = full,
                               !.n = Racing(t, blobID),
                               !.after = Before(t, blobID).after,
                               !.prev = Before(t, blobID).prev]
    IN
    /\ t \in Threads /\ th[t].pc = "idle"
    /\ IF ~EnsureDirOk(fs, Dir(full))
       THEN /\ Return(t, [NoRes EXCEPT !.op = "put", !.err = "notdir", !.at = "mkdir",
                                        !.data = data, !.meta = meta])
            /\ UNCHANGED fs
       ELSE /\ fs' = EnsureDir(fs, Dir(full))
            /\ Goto(t, [me EXCEPT !.pc = "put_lock"])
    /\ UNCHANGED <<path, key, pw, lock, idx, docs, opened, actors, search, faults, first, locker>>

\* a PutBlob that makes its dedup check without waiting for the lock
PutStatUnlocked(t) ==
    LET i == Inst(t) IN
    /\ t \in Threads /\ th[t].pc = "put_lock"
    /\ lock' = Lock(i, t)
    /\ IF StatOk(fs, th[t].full)
       THEN Goto(t, [th[t] EXCEPT !.pc = "put_ret", !.dup = TRUE])
       ELSE Goto(t, [th[t] EXCEPT !.pc = "put_blob"])
    /\ locker' = IF th[t].id \in DOMAIN locker /\ ~locker[th[t].id].set
                 THEN [locker EXCEPT ![th[t].id] =
                          [set |-> TRUE, t |-> t, names |-> Names(th[t].meta)]]
                 ELSE locker
    /\ UNCHANGED <<fs, path, key, pw, idx, docs, opened, actors, search, faults, first>>

\* a PutBlob that writes without looking for the blob file
PutStatAlwaysWrites(t) ==
    LET i == Inst(t) IN
    /\ t \in Threads /\ th[t].pc = "put_lock"
    /\ WFree(i)
    /\ lock' = Lock(i, t)
    /\ Goto(t, [th[t] EXCEPT !.pc = "put_blob"])
    /\ locker' = IF th[t].id \in DOMAIN locker /\ ~locker[th[t].id].set
                 THEN [locker EXCEPT ![th[t].id] =
                          [set |-> TRUE, t |-> t, names |-> Names(th[t].meta)]]
                 ELSE locker
    /\ UNCHANGED <<fs, path, key, pw, idx, docs, opened, actors, search, faults, first>>

\* s.lock.Lock(), then the dedup check: os.Stat(fullPath)
PutStat(t) ==
    LET i == Inst(t) IN
    /\ t \in Threads /\ th[t].pc = "put_lock"
    /\ WFree(i)
    /\ lock' = Lock(i, t)
    /\ IF StatOk(fs, th[t].full)
       THEN Goto(t, [th[t] EXCEPT !.pc = "put_ret", !.dup = TRUE])
       ELSE Goto(t, [th[t] EXCEPT !.pc = "put_blob"])
    /\ locker' = IF th[t].id \in DOMAIN locker /\ ~locker[th[t].id].set
                 THEN [locker EXCEPT ![th[t].id] =
                          [set |-> TRUE, t |-> t, names |-> Names(th[t].meta)]]
                 ELSE locker
    /\ UNCHANGED <<fs, path, key, pw, idx, docs, opened, actors, search, faults, first>>

\* a PutBlob that seals the payload first and compresses the sealed bytes
PutWriteBlobSealsFirst(t) ==
    LET i == Inst(t) IN
    /\ t \in Threads /\ th[t].pc = "put_blob"
    /\ IF ~EncryptOk(th[t].data, key[i])
       THEN /\ Return(t, PutRes(t, "cipher", "encrypt"))
            /\ lock' = Unlock(i)
            /\ UNCHANGED <<fs, faults>>
       ELSE \E nonce \in IF Len(key[i]) = 0 THEN {<<>>} ELSE Nonces :
            \E fail \in FaultChoices :
              IF fail \/ ~WriteFileOk(fs, th[t].full)
              THEN /\ Return(t, PutRes(t, IF fail THEN "io" ELSE "notexist", "blob"))
                   /\ lock' = Unlock(i)
                   /\ faults' = IF fail THEN faults + 1 ELSE faults
                   /\ UNCHANGED fs
              ELSE /\ fs' = WriteFile(fs, th[t].full,
                                      CompressBlob(EncryptBlob(th[t].data, key[i], nonce)))
                   /\ Goto(t, [th[t] EXCEPT !.pc = "put_meta", !.wrote = 1])
                   /\ UNCHANGED <<lock, faults>>
    /\ UNCHANGED <<path, key, pw, idx, docs, opened, actors, search, first, locker>>

\* CompressBlob, EncryptBlob, os.WriteFile(fullPath)
PutWriteBlob(t) ==
    LET i       == Inst(t)
        content == CompressBlob(th[t].data)
    IN
    /\ t \in Threads /\ th[t].pc = "put_blob"
    /\ IF ~EncryptOk(content, key[i])
       THEN /\ Return(t, PutRes(t, "cipher", "encrypt"))
            /\ lock' = Unlock(i)
            /\ UNCHANGED <<fs, faults>>
       ELSE \E nonce \in IF Len(key[i]) = 0 THEN {<<>>} ELSE Nonces :
            \E fail \in FaultChoices :
              IF fail \/ ~WriteFileOk(fs, th[t].full)
              THEN /\ Return(t, PutRes(t, IF fail THEN "io" ELSE "notexist", "blob"))
                   /\ lock' = Unlock(i)
                   /\ faults' = IF fail THEN faults + 1 ELSE faults
                   /\ UNCHANGED fs
              ELSE /\ fs' = WriteFile(fs, th[t].full, EncryptBlob(content, key[i], nonce))
                   /\ Goto(t, [th[t] EXCEPT !.pc = "put_meta", !.wrote = 1])
                   /\ UNCHANGED <<lock, faults>>
    /\ UNCHANGED <<path, key, pw, idx, docs, opened, actors, search, first, locker>>

\* a record written with the caller's values left in place
SidecarKeepsCaller(meta, blobID, data) == meta

\* the record as PutBlob fills it in before it is written
SidecarRecord(meta, blobID, data) ==
    [meta EXCEPT !.BlobHash = blobID, !.Length = Len(data),
                 !.IngestionTime = UTC(meta.IngestionTime)]

\* meta.BlobHash, meta.Length, UTC, json.MarshalIndent, os.WriteFile(metaFile)
PutWriteMeta(t) ==
    LET i    == Inst(t)
        meta == SidecarRecord(th[t].meta, th[t].id, th[t].data)
    IN
    /\ t \in Threads /\ th[t].pc = "put_meta"
    /\ \E fail \in FaultChoices :
         IF fail \/ ~WriteFileOk(fs, MetaPath(th[t].full))
         THEN /\ Return(t, PutRes(t, IF fail THEN "io" ELSE "notexist", "meta"))
              /\ lock' = Unlock(i)
              /\ faults' = IF fail THEN faults + 1 ELSE faults
              /\ UNCHANGED fs
         ELSE /\ fs' = WriteFile(fs, MetaPath(th[t].full), MarshalIndent(meta))
              /\ Goto(t, [th[t] EXCEPT !.pc = "put_ret", !.meta = meta, !.wrote = 2])
              /\ UNCHANGED <<lock, faults>>
    /\ UNCHANGED <<path, key, pw, idx, docs, opened, actors, search, first, locker>>

\* createIndexDocument: the fields of the document taken from the record
IndexDocument(blobID, data, meta) ==
    [BlobID |-> blobID, Name |-> meta.Name, URI |-> meta.URI, Owner |-> meta.Owner,
     Length |-> Len(data)]

\* the record the search-enabled PutBlob indexes when the blob exists already
DupRecord(meta, blobID, data) == [meta EXCEPT !.BlobHash = blobID, !.Length = Len(data)]

\* the search-enabled engine indexes the blob; the deferred Unlock; return blobID
PutReturn(t) ==
    LET i    == Inst(t)
        meta == IF th[t].dup THEN DupRecord(th[t].meta, th[t].id, th[t].data) ELSE th[t].meta
    IN
    /\ t \in Threads /\ th[t].pc = "put_ret"
    /\ docs' = IF search /\ idx[i]
               THEN DocsPut(docs, th[t].id, IndexDocument(th[t].id, th[t].data, meta))
               ELSE docs
    /\ lock' = Unlock(i)
    /\ Return(t, PutRes(t, "", ""))
    /\ first' = IF th[t].id \in DOMAIN first /\ ~first[th[t].id].set
                THEN [first EXCEPT ![th[t].id] =
                         [first[th[t].id] EXCEPT !.set = TRUE, !.stored = th[t].wrote = 2,
                                                 !.names = Names(th[t].meta)]]
                ELSE first
    /\ UNCHANGED <<fs, path, key, pw, idx, opened, actors, search, faults, locker>>

(* ------------------------------------------------------------------ *)
(* GetBlob, ExistsBlob                                                  *)
(* ------------------------------------------------------------------ *)
GetRes(t, blobID, err, at) ==
    [NoRes EXCEPT !.op = "get", !.id = blobID, !.err = err, !.at = at]

\* a GetBlob that reads without waiting for the writer to release the lock
GetBlobUnlocked(t, blobID) ==
    LET i    == Inst(t)
        full == FullPath(i, blobID)
    IN
    /\ t \in Threads /\ th[t].pc = "idle"
    /\ IF ~ReadFileOk(fs, full)
       THEN /\ Return(t, GetRes(t, blobID, "notexist", "blob"))
            /\ UNCHANGED lock
       ELSE /\ lock' = RLock(i, t)
            /\ Goto(t, [Idle EXCEPT !.pc = "get_meta", !.id = blobID, !.full = full,
                                    !.buf = ReadFile(fs, full)])
    /\ UNCHANGED <<fs, path, key, pw, idx, docs, opened, actors, search, faults, first, locker>>

\* s.lock.RLock(), os.ReadFile(fullPath)
GetBlob(t, blobID) ==
    LET i    == Inst(t)
        full == FullPath(i, blobID)
    IN
    /\ t \in Threads /\ th[t].pc = "idle"
    /\ RFree(i)
    /\ IF ~ReadFileOk(fs, full)
       THEN /\ Return(t, GetRes(t, blobID, "notexist", "blob"))
            /\ UNCHANGED lock
       ELSE /\ lock' = RLock(i, t)
            /\ Goto(t, [Idle EXCEPT !.pc = "get_meta", !.id = blobID, !.full = full,
                                    !.buf = ReadFile(fs, full)])
    /\ UNCHANGED <<fs, path, key, pw, idx, docs, opened, actors, search, faults, first, locker>>

\* a GetBlob that removes a blob file it finds without a sidecar
GetReadMetaRepairs(t) ==
    LET i       == Inst(t)
        blobID  == th[t].id
        content == DecryptBlob(th[t].buf, key[i])
        mf      == MetaPath(th[t].full)
    IN
    /\ t \in Threads /\ th[t].pc = "get_meta"
    /\ lock' = RUnlock(i, t)
    /\ fs' = IF ReadFileOk(fs, mf) THEN fs ELSE Remove(fs, th[t].full)
    /\ IF DecryptErr(th[t].buf, key[i]) # ""
       THEN Return(t, GetRes(t, blobID, DecryptErr(th[t].buf, key[i]), "decrypt"))
       ELSE IF ~DecompressOk(content)
       THEN Return(t, GetRes(t, blobID, "gzip", "decompress"))
       ELSE IF ~ReadFileOk(fs, mf)
       THEN Return(t, GetRes(t, blobID, "notexist", "meta"))
       ELSE IF ~Unmarshal(ReadFile(fs, mf)).ok
       THEN Return(t, GetRes(t, blobID, "json", "meta"))
       ELSE Return(t, [GetRes(t, blobID, "", "") EXCEPT
                          !.data = DecompressBlob(content),
                          !.meta = Unmarshal(ReadFile(fs, mf)).meta])
    /\ UNCHANGED <<path, key, pw, idx, docs, opened, actors, search, faults, first, locker>>

\* DecryptBlob, DecompressBlob, os.ReadFile(metaFile), json.Unmarshal, RUnlock
GetReadMeta(t) ==
    LET i       == Inst(t)
        blobID  == th[t].id
        content == DecryptBlob(th[t].buf, key[i])
        mf      == MetaPath(th[t].full)
    IN
    /\ t \in Threads /\ th[t].pc = "get_meta"
    /\ lock' = RUnlock(i, t)
    /\ IF DecryptErr(th[t].buf, key[i]) # ""
       THEN Return(t, GetRes(t, blobID, DecryptErr(th[t].buf, key[i]), "decrypt"))
       ELSE IF ~DecompressOk(content)
       THEN Return(t, GetRes(t, blobID, "gzip", "decompress"))
       ELSE IF ~ReadFileOk(fs, mf)
       THEN Return(t, GetRes(t, blobID, "notexist", "meta"))
       ELSE IF ~Unmarshal(ReadFile(fs, mf)).ok
       THEN Return(t, GetRes(t, blobID, "json", "meta"))
       ELSE Return(t, [GetRes(t, blobID, "", "") EXCEPT
                          !.data = DecompressBlob(content),
                          !.meta = Unmarshal(ReadFile(fs, mf)).meta])
    /\ UNCHANGED <<fs, path, key, pw, idx, docs, opened, actors, search, faults, first, locker>>

\* an ExistsBlob that answers for the blob file and its sidecar together
ExistsNeedsSidecar(t, blobID) ==
    /\ t \in Threads /\ th[t].pc = "idle"
    /\ Return(t, [NoRes EXCEPT !.op = "exists", !.id = blobID,
                               !.ok = /\ StatOk(fs, FullPath(Inst(t), blobID))
                                      /\ StatOk(fs, MetaPath(FullPath(Inst(t), blobID)))])
    /\ UNCHANGED <<fs, path, key, pw, lock, idx, docs, opened, actors, search, faults, first, locker>>

\* os.Stat(fullPath): nil is true, a not-exist error is false
ExistsBlob(t, blobID) ==
    /\ t \in Threads /\ th[t].pc = "idle"
    /\ Return(t, [NoRes EXCEPT !.op = "exists", !.id = blobID,
                               !.ok = StatOk(fs, FullPath(Inst(t), blobID))])
    /\ UNCHANGED <<fs, path, key, pw, lock, idx, docs, opened, actors, search, faults, first, locker>>

(* ------------------------------------------------------------------ *)
(* DeleteBlob, PurgeStore                                               *)
(* ------------------------------------------------------------------ *)
\* the search-enabled engine removes the document from the index first
DeleteBlob(t, blobID) ==
    LET i == Inst(t) IN
    /\ t \in Threads /\ th[t].pc = "idle"
    /\ docs' = IF search /\ idx[i] THEN DocsDel(docs, blobID) ELSE docs
    /\ Goto(t, [Idle EXCEPT !.pc = "del_blob", !.id = blobID, !.full = FullPath(i, blobID),
                            !.after = IF res[t].op = "delete" /\ res[t].id = blobID /\ res[t].n = 2
                                      THEN "delete" ELSE ""])
    /\ Forget(blobID)
    /\ UNCHANGED <<fs, path, key, pw, lock, idx, opened, actors, search, faults>>

\* a DeleteBlob that leaves the blob file
DeleteKeepsBlob(t) ==
    /\ t \in Threads /\ th[t].pc = "del_blob"
    /\ Goto(t, [th[t] EXCEPT !.pc = "del_meta"])
    /\ Forget(th[t].id)
    /\ UNCHANGED <<fs, path, key, pw, lock, idx, docs, opened, actors, search, faults>>

\* _ = os.Remove(fullPath)
DeleteRemoveBlob(t) ==
    /\ t \in Threads /\ th[t].pc = "del_blob"
    /\ fs' = Remove(fs, th[t].full)
    /\ Goto(t, [th[t] EXCEPT !.pc = "del_meta",
                             !.n = IF IsFile(fs, th[t].full) THEN 1 ELSE 0])
    /\ Forget(th[t].id)
    /\ UNCHANGED <<path, key, pw, lock, idx, docs, opened, actors, search, faults>>

\* _ = os.Remove(fullPath) when the file system refuses to remove the file
\* that is there (read-only directory, immutable file): the error is dropped
DeleteRemoveBlobFails(t) ==
    /\ t \in Threads /\ th[t].pc = "del_blob"
    /\ IsFile(fs, th[t].full)
    /\ faults < MaxFaults
    /\ faults' = faults + 1
    /\ Goto(t, [th[t] EXCEPT !.pc = "del_meta"])
    /\ UNCHANGED <<fs, path, key, pw, lock, idx, docs, opened, actors, search, first, locker>>

\* the name, uri and owner of the record this delete destroys
Destroyed(t) ==
    LET mf == MetaPath(th[t].full) IN
    IF ReadFileOk(fs, mf) /\ Unmarshal(ReadFile(fs, mf)).ok
    THEN Names(Unmarshal(ReadFile(fs, mf)).meta)
    ELSE Names(ZeroMeta)

\* a DeleteBlob that leaves the sidecar
DeleteKeepsMeta(t) ==
    /\ t \in Threads /\ th[t].pc = "del_meta"
    /\ Return(t, [NoRes EXCEPT !.op = "delete", !.id = th[t].id, !.n = th[t].n])
    /\ Forget(th[t].id)
    /\ UNCHANGED <<fs, path, key, pw, lock, idx, docs, opened, actors, search, faults>>

\* a DeleteBlob that removes the shard directory of the id with the sidecar
DeleteRemoveMetaPrunes(t) ==
    /\ t \in Threads /\ th[t].pc = "del_meta"
    /\ fs' = RemoveAll(fs, Dir(th[t].full))
    /\ Return(t, [NoRes EXCEPT !.op = "delete", !.id = th[t].id, !.prev = Destroyed(t),
                               !.after = th[t].after,
                               !.n = th[t].n + IF IsFile(fs, MetaPath(th[t].full))
                                               THEN 1 ELSE 0])
    /\ Forget(th[t].id)
    /\ UNCHANGED <<path, key, pw, lock, idx, docs, opened, actors, search, faults>>

\* _ = os.Remove(metaFile); return nil
DeleteRemoveMeta(t) ==
    /\ t \in Threads /\ th[t].pc = "del_meta"
    /\ fs' = Remove(fs, MetaPath(th[t].full))
    /\ Return(t, [NoRes EXCEPT !.op = "delete", !.id = th[t].id, !.prev = Destroyed(t),
                               !.after = th[t].after,
                               !.n = th[t].n + IF IsFile(fs, MetaPath(th[t].full))
                                               THEN 1 ELSE 0])
    /\ Forget(th[t].id)
    /\ UNCHANGED <<path, key, pw, lock, idx, docs, opened, actors, search, faults>>

\* _ = os.Remove(metaFile) when the file system refuses to remove the sidecar
\* that is there; return nil all the same
DeleteRemoveMetaFails(t) ==
    /\ t \in Threads /\ th[t].pc = "del_meta"
    /\ IsFile(fs, MetaPath(th[t].full))
    /\ faults < MaxFaults
    /\ faults' = faults + 1
    /\ Return(t, [NoRes EXCEPT !.op = "delete", !.id = th[t].id, !.after = th[t].after,
                               !.n = th[t].n])
    /\ UNCHANGED <<fs, path, key, pw, lock, idx, docs, opened, actors, search, first, locker>>

\* closeIndex (search-enabled engine), os.ReadDir(s.path)
PurgeStore(t) ==
    LET i == Inst(t) IN
    /\ t \in Threads /\ th[t].pc = "idle"
    /\ idx' = [idx EXCEPT ![i] = FALSE]
    /\ IF ~ReadDirOk(fs, path[i])
       THEN Return(t, [NoRes EXCEPT !.op = "purge", !.err = "notexist", !.at = "readdir"])
       ELSE Goto(t, [Idle EXCEPT !.pc = "purge_rm", !.ents = ReadDir(fs, path[i]),
                                 !.n = Len(ReadDir(fs, path[i])),
                                 !.gone = InspectOf(fs, path[i])])
    /\ ForgetAll
    /\ UNCHANGED <<fs, path, key, pw, lock, docs, opened, actors, search, faults>>

\* a PurgeStore that passes over the entries without removing them
PurgeSkips(t) ==
    /\ t \in Threads /\ th[t].pc = "purge_rm"
    /\ th[t].ents # <<>>
    /\ Goto(t, [th[t] EXCEPT !.ents = Tail(@)])
    /\ ForgetAll
    /\ UNCHANGED <<fs, path, key, pw, lock, idx, docs, opened, actors, search, faults>>

\* os.RemoveAll of the next entry read from the root
PurgeRemove(t) ==
    LET i == Inst(t) IN
    /\ t \in Threads /\ th[t].pc = "purge_rm"
    /\ th[t].ents # <<>>
    /\ fs' = RemoveAll(fs, Join(path[i], Head(th[t].ents)))
    /\ docs' = IF Head(th[t].ents) = IndexName THEN <<>> ELSE docs
    /\ Goto(t, [th[t] EXCEPT !.ents = Tail(@)])
    /\ ForgetAll
    /\ UNCHANGED <<path, key, pw, lock, idx, opened, actors, search, faults>>

\* after the loop: the search-enabled engine creates the index again; return nil
PurgeReturn(t) ==
    LET i == Inst(t) IN
    /\ t \in Threads /\ th[t].pc = "purge_rm"
    /\ th[t].ents = <<>>
    /\ IF ~search
       THEN /\ Return(t, [NoRes EXCEPT !.op = "purge", !.n = th[t].n,
                                        !.list = th[t].gone])
            /\ UNCHANGED <<fs, idx, docs>>
       ELSE IF ~NewIndexOk(fs, path[i]) \/ ~IsDir(fs, path[i])
       THEN /\ Return(t, [NoRes EXCEPT !.op = "purge", !.err = "index", !.at = "index"])
            /\ UNCHANGED <<fs, idx, docs>>
       ELSE /\ fs' = NewIndex(fs, path[i])
            /\ idx' = [idx EXCEPT ![i] = TRUE]
            /\ docs' = <<>>
            /\ Return(t, [NoRes EXCEPT !.op = "purge", !.n = th[t].n,
                                        !.list = th[t].gone])
    /\ ForgetAll
    /\ UNCHANGED <<path, key, pw, lock, opened, actors, search, faults>>

(* ------------------------------------------------------------------ *)
(* Stats, InspectStore                                                  *)
(* ------------------------------------------------------------------ *)
Stats(t) ==
    LET i == Inst(t) IN
    /\ t \in Threads /\ th[t].pc = "idle"
    /\ IF ~ReadDirOk(fs, path[i])
       THEN Return(t, [NoRes EXCEPT !.op = "stats", !.err = "notexist"])
       ELSE Return(t, [NoRes EXCEPT !.op = "stats", !.stats = StatsOf(fs, path[i])])
    /\ UNCHANGED <<fs, path, key, pw, lock, idx, docs, opened, actors, search, faults, first, locker>>

InspectStore(t) ==
    LET i == Inst(t) IN
    /\ t \in Threads /\ th[t].pc = "idle"
    /\ IF ~ReadDirOk(fs, path[i])
       THEN Return(t, [NoRes EXCEPT !.op = "inspect", !.err = "notexist"])
       ELSE Return(t, [NoRes EXCEPT !.op = "inspect", !.list = InspectOf(fs, path[i])])
    /\ UNCHANGED <<fs, path, key, pw, lock, idx, docs, opened, actors, search, faults, first, locker>>

(* ------------------------------------------------------------------ *)
(* Specifications                                                       *)
(* ------------------------------------------------------------------ *)
\* Callers create the store first (README, USAGE) and then use it.
Create(t) == \E k \in KeyOpts : t \in Threads /\ ~opened[Inst(t)] /\ CreateStore(t, StoreRoot, k)
Put(t)    == \E d \in Payloads, m \in Metas : t \in Threads /\ opened[Inst(t)] /\ PutBlob(t, d, m)
Get(t)    == \E id \in Ids : t \in Threads /\ opened[Inst(t)] /\ GetBlob(t, id)
Exists(t) == \E id \in Ids : t \in Threads /\ opened[Inst(t)] /\ ExistsBlob(t, id)
Delete(t) == \E id \in Ids : t \in Threads /\ opened[Inst(t)] /\ DeleteBlob(t, id)
Purge(t)  == t \in Threads /\ opened[Inst(t)] /\ PurgeStore(t)
Tally(t)  == t \in Threads /\ opened[Inst(t)] /\ Stats(t)
List(t)   == t \in Threads /\ opened[Inst(t)] /\ InspectStore(t)

Next ==
    \E t \in ThreadIds :
        \/ Create(t)
        \/ Put(t) \/ PutStat(t) \/ PutWriteBlob(t) \/ PutWriteMeta(t) \/ PutReturn(t)
        \/ Get(t) \/ GetReadMeta(t)
        \/ Exists(t)
        \/ Delete(t) \/ DeleteRemoveBlob(t) \/ DeleteRemoveMeta(t)
        \/ Purge(t) \/ PurgeRemove(t) \/ PurgeReturn(t)
        \/ Tally(t) \/ List(t)

Spec == Init /\ [][Next]_vars

\* Two threads share one instance and no write fails. Thread 1 creates the
\* store and then puts, gets and walks; thread 2 makes one call, which
\* overlaps the calls of thread 1 in every way.
InitConc == InitWith((1 :> 1) @@ (2 :> 1), MaxFaults)
Once(t) == res[t].op = ""
PutAs(t, m) == \E d \in Payloads : t \in Threads /\ opened[Inst(t)] /\ PutBlob(t, d, m)
NextConc ==
    \/ Create(1)
    \/ PutAs(1, MetaA) \/ Get(1) \/ Tally(1) \/ List(1)
    \/ Once(2) /\ PutAs(2, MetaB)
    \/ Once(2) /\ Get(2)
    \/ Once(2) /\ Delete(2)
    \/ Once(2) /\ Purge(2)
    \/ \E t \in ThreadIds :
          \/ PutStat(t) \/ PutWriteBlob(t) \/ PutWriteMeta(t) \/ PutReturn(t)
          \/ GetReadMeta(t)
          \/ DeleteRemoveBlob(t) \/ DeleteRemoveMeta(t)
          \/ PurgeRemove(t) \/ PurgeReturn(t)
SpecConc == InitConc /\ [][NextConc]_vars

\* Three threads share one instance, no write fails, and every call is a put:
\* thread 1 creates the store and puts again and again, threads 2 and 3 put once.
InitPuts == InitWith((1 :> 1) @@ (2 :> 1) @@ (3 :> 1), MaxFaults)
NextPuts ==
    \/ Create(1)
    \/ PutAs(1, MetaA)
    \/ Once(2) /\ PutAs(2, MetaB)
    \/ Once(3) /\ Put(3)
    \/ \E t \in ThreadIds :
          PutStat(t) \/ PutWriteBlob(t) \/ PutWriteMeta(t) \/ PutReturn(t)
SpecPuts == InitPuts /\ [][NextPuts]_vars

\* One caller at a time works on the root through processes that come and
\* go: a process creates or opens the store with any passphrase or none, puts,
\* gets and looks, and ends; the next one starts from an empty LocalStore.
\* The plain engine can also re-open within a process.
InitKeys == InitWith(1 :> 1, 0)
CreateAny(t) == \E k \in OpenOpts : t \in Threads /\ ~opened[Inst(t)] /\ CreateStore(t, StoreRoot, k)
Open(t)      == \E k \in OpenOpts : t \in Threads /\ OpenStore(t, StoreRoot, k)
Leave(t)     == t \in Threads /\ opened[Inst(t)] /\ Exit(t)
NextKeys ==
    \/ CreateAny(1) \/ Open(1) \/ Leave(1)
    \/ PutAs(1, MetaA) \/ PutStat(1) \/ PutWriteBlob(1) \/ PutWriteMeta(1) \/ PutReturn(1)
    \/ Get(1) \/ GetReadMeta(1)
    \/ Exists(1) \/ Tally(1)
SpecKeys == InitKeys /\ [][NextKeys]_vars

\* EncryptBlob and DecryptBlob on their own: instance 1 holds the key that
\* seals and instance 2 the key that opens, both derived by KeyFromPassword
\* from a passphrase (the empty passphrase included); a plaintext is sealed
\* under a fresh nonce and the sealed bytes are then opened.
SealKeys == {KeyFromPassword(p) : p \in Passphrases \cup {<<>>}}
InitSeal ==
    /\ fs = EmptyFS
    /\ path = [i \in Insts |-> <<>>]
    /\ key \in [Insts -> SealKeys]
    /\ pw = [made |-> <<>>, inst |-> [i \in Insts |-> <<>>]]
    /\ lock = [i \in Insts |-> [w |-> 0, r |-> {}]]
    /\ idx = [i \in Insts |-> FALSE]
    /\ docs = <<>>
    /\ opened = [i \in Insts |-> FALSE]
    /\ actors = (1 :> 1)
    /\ th = [t \in {1} |-> Idle]
    /\ res = [t \in {1} |-> NoRes]
    /\ search = FALSE
    /\ faults = MaxFaults
    /\ first = [id \in Ids |-> NoFirst]
    /\ locker = [id \in Ids |-> NoLocker]

\* what is sealed: a payload as it is, or compressed as PutBlob seals it
Plaintexts == Payloads \cup {CompressBlob(d) : d \in Payloads}

\* ct, err := EncryptBlob(pt, key)
SealCall(t) ==
    /\ th[t].pc = "idle"
    /\ \E pt \in Plaintexts, nonce \in Nonces :
          /\ EncryptOk(pt, key[1])
          /\ Goto(t, [Idle EXCEPT !.pc = "sealed", !.data = pt,
                                  !.buf = EncryptBlob(pt, key[1], nonce)])
    /\ UNCHANGED <<fs, path, key, pw, lock, idx, docs, opened, actors, search, faults, first, locker>>

\* pt2, err := DecryptBlob(ct, key): nil and the error, or the plaintext; the
\* caller keeps pt and ct
OpenCall(t) ==
    /\ th[t].pc = "sealed"
    /\ th' = [th EXCEPT ![t].pc = "idle"]
    /\ res' = [res EXCEPT ![t] =
                  [NoRes EXCEPT !.op = "decrypt", !.err = DecryptErr(th[t].buf, key[2]),
                                !.data = IF DecryptErr(th[t].buf, key[2]) = ""
                                         THEN DecryptBlob(th[t].buf, key[2]) ELSE <<>>,
                                !.ok = DecryptErr(th[t].buf, key[2]) = ""]]
    /\ UNCHANGED <<fs, path, key, pw, lock, idx, docs, opened, actors, search, faults, first, locker>>

NextSeal == SealCall(1) \/ OpenCall(1)
SpecSeal == InitSeal /\ [][NextSeal]_vars

\* One caller puts, deletes and looks, on a file system that may refuse
\* MaxFaults writes or removals.
NextRefuse ==
    \/ Create(1)
    \/ Put(1) \/ PutStat(1) \/ PutWriteBlob(1) \/ PutWriteMeta(1) \/ PutReturn(1)
    \/ Delete(1) \/ DeleteRemoveBlob(1) \/ DeleteRemoveMeta(1)
    \/ DeleteRemoveBlobFails(1) \/ DeleteRemoveMetaFails(1)
    \/ Exists(1) \/ Get(1) \/ GetReadMeta(1)
SpecRefuse == Init /\ [][NextRefuse]_vars

\* Two instances, each with its own lock, work on one root and no write
\* fails: instance 1 creates the store and puts again and again, instance 2
\* opens the root, with the same passphrase or another or none, and puts
\* once, overlapping the puts of instance 1 in every way.
InitCross == InitWith((1 :> 1) @@ (2 :> 2), MaxFaults)
OpenAs(t) == \E k \in KeyOpts : t \in Threads /\ ~opened[Inst(t)] /\ OpenStore(t, StoreRoot, k)
Fresh(t)  == res[t].op \in {"", "open"}
NextCross ==
    \/ Create(1)
    \/ PutAs(1, MetaA)
    \/ OpenAs(2)
    \/ Fresh(2) /\ PutAs(2, MetaB)
    \/ \E t \in ThreadIds :
          PutStat(t) \/ PutWriteBlob(t) \/ PutWriteMeta(t) \/ PutReturn(t)
SpecCross == InitCross /\ [][NextCross]_vars

(* ------------------------------------------------------------------ *)
(* Properties                                                           *)
(* ------------------------------------------------------------------ *)
Quiet == \A t \in Threads : th[t].pc = "idle"

\* sealed bytes that open to payload d under key k
OpensTo(bytes, k, d) ==
    /\ DecryptErr(bytes, k) = ""
    /\ DecompressOk(DecryptBlob(bytes, k))
    /\ DecompressBlob(DecryptBlob(bytes, k)) = d

\* the .blob files of file system f that hold payload d under key k
ObjectFiles(f, k, d) ==
    {p \in DOMAIN f.files : Ext(p) = DotBlob /\ OpensTo(f.files[p], k, d)}

\* the sidecar of the blob at path full holds name, uri and owner nm
SidecarHolds(f, full, nm) ==
    /\ IsFile(f, MetaPath(full))
    /\ Unmarshal(ReadFile(f, MetaPath(full))).ok
    /\ Names(Unmarshal(ReadFile(f, MetaPath(full))).meta) = nm

\* thread t returns from a put in this step
PutReturns(t) == th[t].pc = "put_ret" /\ th'[t].pc = "idle"

\* C1: dedup idempotence. Once a PutBlob has stored payload b (written the
\* blob file and the sidecar, and returned the id), and until a delete of the
\* id or a purge acts, every PutBlob of b returns that same id with no error
\* and writes nothing, the sidecar still holds the storing put's name, uri and
\* owner, and the store holds exactly one blob file for b.
C1_DedupIdempotent ==
    [][\A t \in Threads :
         (PutReturns(t) /\ first[th[t].id].set /\ first[th[t].id].stored) =>
             /\ res'[t].op = "put" /\ res'[t].err = ""
             /\ res'[t].id = GenerateBlobID(res'[t].data)
             /\ res'[t].dup /\ res'[t].wrote = 0
             /\ SidecarHolds(fs', th[t].full, first[th[t].id].names)
             /\ Cardinality(ObjectFiles(fs', key[Inst(t)], th[t].data)) = 1]_vars

\* a put of stored content with another record has returned
C1_Witness ==
    \E t \in Threads :
        /\ th[t].pc = "idle" /\ res[t].op = "put" /\ res[t].err = "" /\ res[t].dup
        /\ first[res[t].id].stored
        /\ first[res[t].id].names # Names(res[t].meta)

\* C2: store round trip. A GetBlob(id) that directly follows a PutBlob which
\* returned id without error succeeds and returns the payload put, with the
\* name, uri and owner of the first put of that payload.
C2_RoundTrip ==
    [][\A t \in Threads :
         (/\ res[t].op = "put" /\ res[t].err = ""
          /\ th[t].pc \in {"idle", "get_meta"} /\ th'[t].pc = "idle"
          /\ res'[t].op = "get" /\ res'[t].id = res[t].id) =>
             /\ res'[t].err = ""
             /\ res'[t].data = res[t].data
             /\ Names(res'[t].meta) = first[res[t].id].names]_vars

\* C3: put atomicity. When a PutBlob has returned, with an id or with an
\* error, the blob file and the sidecar of the payload's id are both present
\* or both absent.
C3_PutAtomic ==
    \A t \in Threads :
        (th[t].pc = "idle" /\ res[t].op = "put") =>
            LET full == FullPath(Inst(t), GenerateBlobID(res[t].data))
            IN IsFile(fs, full) <=> IsFile(fs, MetaPath(full))

Present(i) == {id \in AllIds : IsFile(fs, FullPath(i, id))}

\* the sidecar files under instance i's root
Sidecars(i) == {p \in DOMAIN fs.files : Under(p, path[i]) /\ Ext(p) = DotMeta}

\* C8: Stats consistency. A Stats call that returns without error reports as
\* TotalBlobCount the number of ids whose blob file is present in the store;
\* sidecar files are not counted.
C8_StatsCount ==
    \A t \in Threads :
        (th[t].pc = "idle" /\ res[t].op = "stats" /\ res[t].err = "") =>
            res[t].stats.TotalBlobCount = Cardinality(Present(Inst(t)))

\* Stats has counted two blobs in a store that holds both their sidecars
C8_Witness ==
    \E t \in Threads :
        /\ th[t].pc = "idle" /\ res[t].op = "stats" /\ res[t].err = ""
        /\ res[t].stats.TotalBlobCount = 2
        /\ Cardinality(Sidecars(Inst(t))) = 2

\* thread t takes a step of a DeleteBlob call on the blob at path full
DeleteSteps(t, full) ==
    \/ th[t].pc = "idle" /\ th'[t].pc = "del_blob" /\ th'[t].full = full
    \/ th[t].pc = "del_blob" /\ th'[t].pc = "del_meta" /\ th[t].full = full
    \/ th[t].pc = "del_meta" /\ th'[t].pc = "idle" /\ th[t].full = full

Returns(t, op) == res'[t] # res[t] /\ th'[t].pc = "idle" /\ res'[t].op = op

\* what holds of a PurgeStore that returned without error, given the entries
\* it leaves in the root: no blob exists, an ExistsBlob that follows returns
\* false, a PutBlob that follows fails only when the file system refuses a
\* write and otherwise stores the content as a new object under its own
\* metadata, and a GetBlob that follows such a put returns that content and
\* metadata
AfterPurge(left) ==
    \A t \in Threads :
        /\ (Returns(t, "purge") /\ res'[t].err = "") =>
               /\ IsDir(fs', path[Inst(t)])
               /\ ReadDir(fs', path[Inst(t)]) = left
               /\ \A id \in AllIds : ~StatOk(fs', FullPath(Inst(t), id))
        /\ (res[t].op = "purge" /\ res[t].err = "" /\ Returns(t, "exists")) => ~res'[t].ok
        /\ (res[t].op = "purge" /\ res[t].err = "" /\ Returns(t, "put")) =>
               /\ res'[t].err \in {"", "io"}
               /\ res'[t].err = "" =>
                      /\ ~res'[t].dup /\ res'[t].wrote = 2
                      /\ res'[t].id = GenerateBlobID(res'[t].data)
                      /\ SidecarHolds(fs', FullPath(Inst(t), res'[t].id), Names(res'[t].meta))
        /\ (res[t].op = "put" /\ res[t].err = "" /\ res[t].wrote = 2 /\ Returns(t, "get")
                /\ res'[t].id = res[t].id) =>
               /\ res'[t].err = ""
               /\ res'[t].data = res[t].data
               /\ Names(res'[t].meta) = Names(res[t].meta)

Began(t) ==
    \/ th[t].pc = "put_meta"
    \/ th[t].pc = "del_meta"
    \/ th[t].pc = "purge_rm" /\ th[t].ents # <<>> /\ Len(th[t].ents) < th[t].n

\* thread t is in a GetBlob between its first and its last file read
Reading(t) == th[t].pc = "get_meta"

\* thread t changes the files of the store in this step
Modifies(t) == th'[t] # th[t] /\ fs'.files # fs.files

\* C4: lock discipline. Within one instance no PutBlob, DeleteBlob or
\* PurgeStore changes the store's files while another of them is between its
\* first file change and its return, or while a GetBlob is between its first
\* and last file read.
C4_LockDiscipline ==
    [][\A t \in Threads : \A u \in Threads \ {t} :
         (Modifies(t) /\ Inst(u) = Inst(t)) => ~Began(u) /\ ~Reading(u)]_vars

\* C5: the dedup check-then-write is race-free within one instance. Among
\* concurrent puts no file is written twice, only the put that took the write
\* lock first for an id writes its files, and every put returns the id of its
\* content without error, leaving one blob file for the content and the
\* sidecar of the put that took the lock first.
C5_RaceFreePuts ==
    [][/\ \A p \in DOMAIN fs.files : IsFile(fs', p) /\ ReadFile(fs', p) = ReadFile(fs, p)
       /\ \A t \in Threads :
             /\ (th[t].pc \in {"put_blob", "put_meta"} /\ Modifies(t)) =>
                    locker[th[t].id].set /\ locker[th[t].id].t = t
             /\ PutReturns(t) =>
                    /\ res'[t].err = "" /\ res'[t].id = GenerateBlobID(th[t].data)
                    /\ SidecarHolds(fs', th[t].full, locker[th[t].id].names)
                    /\ Cardinality(ObjectFiles(fs', key[Inst(t)], th[t].data)) = 1]_vars

\* a put that began while another put of the same new content was under way
\* has returned: it found the blob and left the record of the other put
C5_Witness ==
    \E t \in Threads :
        /\ th[t].pc = "idle" /\ res[t].op = "put" /\ res[t].err = ""
        /\ res[t].n > 0 /\ res[t].dup
        /\ locker[res[t].id].t # t
        /\ locker[res[t].id].names # Names(res[t].meta)
        /\ SidecarHolds(fs, FullPath(Inst(t), res[t].id), locker[res[t].id].names)

\* thread u is in a PurgeStore that has removed some entries of the root, not all
HalfPurged(u) == th[u].pc = "purge_rm" /\ th[u].ents # <<>> /\ Len(th[u].ents) < th[u].n

\* C6: purge is atomic for readers. A GetBlob that returns while a PurgeStore
\* of the instance is under way has found the blob with its sidecar or no blob
\* at all, never a blob without its sidecar; a Stats or InspectStore that runs
\* while a purge has removed some entries reports the store as it was when the
\* purge began or the empty store.
C6_PurgeAtomicForReaders ==
    [][\A t \in Threads : \A u \in Threads \ {t} :
         (Inst(u) = Inst(t) /\ th[u].pc = "purge_rm") =>
             /\ Returns(t, "get") =>
                    \/ res'[t].err = ""
                    \/ res'[t].err = "notexist" /\ res'[t].at = "blob"
             /\ (HalfPurged(u) /\ Returns(t, "inspect")) =>
                    res'[t].list \in {th[u].gone, <<>>}
             /\ (HalfPurged(u) /\ Returns(t, "stats")) =>
                    res'[t].stats.TotalBlobCount \in {Len(th[u].gone), 0}]_vars

\* C12: exists. An ExistsBlob(id) call returns without error, and returns true
\* exactly when the blob file at the path derived from id is present, whether
\* the sidecar of id is present or not.
C12_ExistsIffBlobFile ==
    \A t \in Threads :
        (th[t].pc = "idle" /\ res[t].op = "exists") =>
            /\ res[t].err = ""
            /\ res[t].ok <=> IsFile(fs, FullPath(Inst(t), res[t].id))

\* ExistsBlob has returned true for an id whose sidecar is missing
C12_Witness ==
    \E t \in Threads :
        /\ th[t].pc = "idle" /\ res[t].op = "exists" /\ res[t].ok
        /\ IsFile(fs, FullPath(Inst(t), res[t].id))
        /\ ~IsFile(fs, MetaPath(FullPath(Inst(t), res[t].id)))

\* thread t takes a step of a PutBlob call on the blob at path full
PutSteps(t, full) ==
    \/ th[t].pc = "idle" /\ th'[t].pc = "put_lock" /\ th'[t].full = full
    \/ th[t].pc = "idle" /\ th'[t].pc = "idle" /\ res'[t] # res[t] /\ res'[t].op = "put"
          /\ FullPath(Inst(t), GenerateBlobID(res'[t].data)) = full
    \/ th[t].pc \in {"put_lock", "put_blob", "put_meta", "put_ret"} /\ th[t].full = full
          /\ th'[t] # th[t]

\* C18: stored objects are immutable. No step of a PutBlob call whose blob
\* file is present, and which has not written it itself, creates, removes or
\* changes a file: the blob file keeps its sealed bytes, nonce included, and
\* the sidecar its bytes; such a call returns the id without error.
C18_StoredImmutable ==
    [][\A t \in Threads : \A id \in Ids :
         LET full == FullPath(Inst(t), id) IN
         (PutSteps(t, full) /\ IsFile(fs, full) /\ th[t].wrote = 0) =>
             /\ fs'.files = fs.files
             /\ th'[t].pc \in {"put_lock", "put_ret", "idle"}
             /\ th'[t].pc = "idle" => (res'[t].err = "" /\ res'[t].id = id /\ res'[t].wrote = 0)]_vars

\* a put of content stored in an encrypted store, with another record, has
\* returned
C18_Witness ==
    \E t \in Threads :
        /\ th[t].pc = "idle" /\ res[t].op = "put" /\ res[t].err = "" /\ res[t].dup
        /\ Len(key[Inst(t)]) > 0
        /\ DecryptErr(ReadFile(fs, FullPath(Inst(t), res[t].id)), key[Inst(t)]) = ""
        /\ IsFile(fs, MetaPath(FullPath(Inst(t), res[t].id)))
        /\ ~SidecarHolds(fs, FullPath(Inst(t), res[t].id), Names(res[t].meta))

\* C19: engine-computed record fields. Every sidecar in the store parses to a
\* record whose BlobHash is the id its path is derived from, whose Length is
\* the byte count of the payload with that id, and whose IngestionTime is in
\* UTC (zone offset 0), whatever the caller of PutBlob put in those fields.
C19_EngineFields ==
    \A i \in Insts : \A d \in Payloads :
        LET id == GenerateBlobID(d)
            mf == MetaPath(FullPath(i, id))
        IN IsFile(fs, mf) =>
              /\ Unmarshal(ReadFile(fs, mf)).ok
              /\ Unmarshal(ReadFile(fs, mf)).meta.BlobHash = id
              /\ Unmarshal(ReadFile(fs, mf)).meta.Length = Len(d)
              /\ Unmarshal(ReadFile(fs, mf)).meta.IngestionTime.zone = 0

\* a sidecar has been written from a record whose caller supplied another
\* hash, another length and a time outside UTC
C19_Witness ==
    \E t \in Threads :
        /\ th[t].pc = "idle" /\ res[t].op = "put" /\ res[t].err = "" /\ res[t].wrote = 2
        /\ SidecarHolds(fs, FullPath(Inst(t), res[t].id), Names(MetaA))
        /\ MetaA.BlobHash # res[t].id /\ MetaA.Length # Len(res[t].data)
        /\ MetaA.IngestionTime.zone # 0
        /\ Unmarshal(ReadFile(fs, MetaPath(FullPath(Inst(t), res[t].id)))).meta.IngestionTime.sec
               = MetaA.IngestionTime.sec

\* the bytes of the blob file at path full open under key k
Opens(f, full, k) ==
    /\ DecryptErr(ReadFile(f, full), k) = ""
    /\ DecompressOk(DecryptBlob(ReadFile(f, full), k))

\* C11: get error outcomes. A GetBlob(id) that has returned: returned a
\* not-found error when the blob file or the sidecar of id is absent; returned
\* the decryption or decompression error when the blob file's bytes do not
\* open under the instance's key; returned data only when both files are
\* present and readable; and returned an empty payload and an empty record
\* with every error.
C11_GetErrors ==
    \A t \in Threads :
        (th[t].pc = "idle" /\ res[t].op = "get") =>
            LET full == FullPath(Inst(t), res[t].id)
                k    == key[Inst(t)]
            IN /\ (~IsFile(fs, full) \/ ~IsFile(fs, MetaPath(full))) => res[t].err = "notexist"
               /\ (IsFile(fs, full) /\ ~Opens(fs, full, k)) =>
                      res[t].err \in {"cipher", "short", "auth", "gzip"}
               /\ res[t].err = "" =>
                      /\ IsFile(fs, full) /\ IsFile(fs, MetaPath(full))
                      /\ Opens(fs, full, k)
                      /\ Unmarshal(ReadFile(fs, MetaPath(full))).ok
               /\ res[t].err # "" => (res[t].data = <<>> /\ res[t].meta = ZeroMeta)

\* C13: wrong-key detection. Whenever bytes sealed by EncryptBlob under a key
\* K1 are opened by DecryptBlob with a key K2 other than K1, DecryptBlob
\* returns the authentication failure and no plaintext; under K1 itself it
\* returns the plaintext that was sealed.
C13_WrongKeyDetected ==
    \A t \in Threads :
        (th[t].pc = "idle" /\ res[t].op = "decrypt") =>
            IF key[1] # key[2]
            THEN res[t].err = "auth" /\ ~res[t].ok /\ res[t].data = <<>>
            ELSE res[t].err = "" /\ res[t].ok /\ res[t].data = th[t].data

\* a non-empty plaintext sealed under one key has been opened with another
C13_Witness ==
    \E t \in Threads :
        /\ th[t].pc = "idle" /\ res[t].op = "decrypt" /\ res[t].err = "auth"
        /\ key[1] # key[2] /\ Len(th[t].data) > 0
        /\ th[t].buf = EncryptBlob(th[t].data, key[1], SubSeq(th[t].buf, 1, NonceSize))

\* the keys a store of this model can hold: nil, and KeyFromPassword of a passphrase
StoreKeys == {KeyOf(k) : k \in OpenOpts}

\* the blob file at path full was sealed under a key other than k
SealedUnderOther(f, full, k) ==
    /\ IsFile(f, full)
    /\ \E k1 \in StoreKeys \ {<<>>, k} : DecryptErr(ReadFile(f, full), k1) = ""

\* OpenStore on a root that exists succeeds with any passphrase or none, and
\* PutBlob, ExistsBlob and Stats fail on nothing but a refused write
OpensUnchecked ==
    \A t \in Threads :
        th[t].pc = "idle" =>
            /\ (res[t].op = "open" /\ IsDir(fs, StoreRoot)) => res[t].err = ""
            /\ res[t].op \in {"put", "exists", "stats"} => res[t].err \in {"", "io"}

\* C14: lazy key verification. OpenStore on an existing store succeeds with
\* any passphrase; after it no PutBlob, ExistsBlob or Stats fails, and a
\* GetBlob of an object of the store as it was created (blob file and sidecar
\* present), made by an instance opened with another passphrase than the
\* store was created with, fails with the authentication failure and returns
\* no data.
C14_WrongPassphraseFails ==
    /\ OpensUnchecked
    /\ \A t \in Threads :
          LET i    == Inst(t)
              full == FullPath(i, res[t].id)
          IN (/\ th[t].pc = "idle" /\ res[t].op = "get"
              /\ Len(pw.made) > 0 /\ Len(pw.made[1]) > 0
              /\ Len(pw.inst[i]) > 0 /\ pw.inst[i] # pw.made[1]
              /\ IsFile(fs, full) /\ Opens(fs, full, KeyOf(pw.made[1]))
              /\ IsFile(fs, MetaPath(full))) =>
                 res[t].err = "auth" /\ res[t].data = <<>>

\* What does hold of lazy key verification, in terms of keys: OpenStore on
\* an existing store succeeds with any passphrase or none; after it no
\* PutBlob, ExistsBlob or Stats fails; a GetBlob of an object sealed under
\* another key than the one the instance's passphrase derives fails with the
\* authentication failure and returns no data; a GetBlob of an object sealed
\* under the very key the passphrase derives does not fail on the key,
\* whichever passphrase derived it.
LazyKeyCheck ==
    /\ OpensUnchecked
    /\ \A t \in Threads :
          LET i    == Inst(t)
              full == FullPath(i, res[t].id)
          IN (th[t].pc = "idle" /\ res[t].op = "get" /\ Len(key[i]) > 0) =>
                /\ SealedUnderOther(fs, full, key[i]) =>
                       res[t].err = "auth" /\ res[t].data = <<>>
                /\ (IsFile(fs, full) /\ Opens(fs, full, key[i])) =>
                       /\ res[t].err \in {"", "notexist"}
                       /\ res[t].err = "notexist" => ~IsFile(fs, MetaPath(full))

\* the blob files under the root
BlobFiles(f, root) == {q \in DOMAIN f.files : Under(q, root) /\ Ext(q) = DotBlob}

\* C15: no mixing of key configurations. In every state, all blob files
\* under the store root are sealed under one key configuration: there is one
\* key, or no key, under which every one of them opens.
C15_OneKeyConfiguration ==
    \E k \in StoreKeys : \A q \in BlobFiles(fs, StoreRoot) : Opens(fs, q, k)

\* C16: I/O errors are not swallowed. A PutBlob step in which the file system
\* refuses the write of the blob file or of the sidecar ends the call with an
\* error; and a DeleteBlob that has returned without error has left neither
\* the blob file nor the sidecar of its id behind (a file that is still there
\* was refused removal for another reason than absence).
C16_IoErrorsSurface ==
    /\ [][\A t \in Threads :
            (th[t].pc \in {"put_blob", "put_meta"} /\ faults' # faults) =>
                (th'[t].pc = "idle" /\ res'[t].op = "put" /\ res'[t].err # "")]_vars
    /\ [](\A t \in Threads :
            (th[t].pc = "idle" /\ res[t].op = "delete" /\ res[t].err = "") =>
                /\ ~IsFile(fs, FullPath(Inst(t), res[t].id))
                /\ ~IsFile(fs, MetaPath(FullPath(Inst(t), res[t].id))))

\* C17: cross-process race. With two instances putting on one root, whenever
\* no call is under way the root holds exactly one blob file for each content
\* that a put has returned the id of, and the sidecar a put has written for
\* an id is the one that remains: no later step replaces its bytes (the first
\* writer's record wins).
C17_FirstWriterRemains ==
    /\ [](Quiet =>
            \A t \in Threads :
                (res[t].op = "put" /\ res[t].err = "") =>
                    Cardinality({q \in BlobFiles(fs, StoreRoot) :
                                    q = FullPath(Inst(t), res[t].id)}) = 1)
    /\ [][\A id \in Ids :
            LET mf == MetaPath(Join(StoreRoot, BlobIDToPath(id))) IN
            (IsFile(fs, mf) /\ IsFile(fs', mf)) => ReadFile(fs', mf) = ReadFile(fs, mf)]_vars

\* the bytes of id are lower-case hex digits
IsHex(id) == \A k \in 1..Len(id) : \E h \in 1..Len(HexDigits) : id[k] = HexDigits[h]

\* C20: identifier determinism. Every PutBlob returns an id, the empty
\* payload included, and the id is 64 hex digits; two puts of the same payload
\* return the same id, whether they are calls of two instances (with
\* different keys or none, and different records) or a call and the next call
\* of one instance (the payload absent at the first and stored at the second).
C20_IdOfPayloadAlone ==
    /\ [](\A t, u \in Threads :
            /\ res[t].op = "put" => (res[t].err = "" /\ Len(res[t].id) = 64 /\ IsHex(res[t].id))
            /\ (res[t].op = "put" /\ res[u].op = "put" /\ res[t].data = res[u].data) =>
                   res[t].id = res[u].id)
    /\ [][\A t \in Threads :
            (res[t].op = "put" /\ Returns(t, "put") /\ res'[t].data = res[t].data) =>
                res'[t].id = res[t].id]_vars

\* two instances with different keys have put the empty payload under
\* different records and got the same id, one of them as a duplicate
C20_Witness ==
    /\ Quiet
    /\ key[1] # key[2]
    /\ res[1].op = "put" /\ res[2].op = "put"
    /\ res[1].data = <<>> /\ res[2].data = <<>>
    /\ Names(res[1].meta) # Names(res[2].meta)
    /\ res[1].id = res[2].id /\ Len(res[1].id) = 64
    /\ res[1].dup # res[2].dup

(* ------------------------------------------------------------------ *)
(* The storage pipeline on its own: compress, seal, open, decompress    *)
(* ------------------------------------------------------------------ *)
\* key configurations: no key, or a key derived from a passphrase
PipeKeys == {<<>>} \cup SealKeys
InitPipe ==
    /\ fs = EmptyFS
    /\ path = [i \in Insts |-> <<>>]
    /\ \E k \in PipeKeys : key = [i \in Insts |-> k]
    /\ pw = [made |-> <<>>, inst |-> [i \in Insts |-> <<>>]]
    /\ lock = [i \in Insts |-> [w |-> 0, r |-> {}]]
    /\ idx = [i \in Insts |-> FALSE]
    /\ docs = <<>>
    /\ opened = [i \in Insts |-> FALSE]
    /\ actors = (1 :> 1)
    /\ th = [t \in {1} |-> Idle]
    /\ res = [t \in {1} |-> NoRes]
    /\ search = FALSE
    /\ faults = MaxFaults
    /\ first = [id \in Ids |-> NoFirst]
    /\ locker = [id \in Ids |-> NoLocker]

\* comp, err := CompressBlob(raw); raw may itself be gzip output
CompressCall(t) ==
    /\ th[t].pc = "idle"
    /\ \E raw \in Plaintexts :
          Goto(t, [Idle EXCEPT !.pc = "pipe_c", !.data = raw, !.buf = CompressBlob(raw)])
    /\ UNCHANGED <<fs, path, key, pw, lock, idx, docs, opened, actors, search, faults, first, locker>>

\* enc, err := EncryptBlob(comp, key)
EncryptCall(t) ==
    /\ th[t].pc = "pipe_c"
    /\ EncryptOk(th[t].buf, key[1])
    /\ \E nonce \in IF Len(key[1]) = 0 THEN {<<>>} ELSE Nonces :
          Goto(t, [th[t] EXCEPT !.pc = "pipe_e", !.buf = EncryptBlob(th[t].buf, key[1], nonce)])
    /\ UNCHANGED <<fs, path, key, pw, lock, idx, docs, opened, actors, search, faults, first, locker>>

\* dec, err := DecryptBlob(enc, key)
DecryptCall(t) ==
    /\ th[t].pc = "pipe_e"
    /\ IF DecryptErr(th[t].buf, key[1]) # ""
       THEN /\ th' = [th EXCEPT ![t].pc = "idle"]
            /\ res' = [res EXCEPT ![t] = [NoRes EXCEPT !.op = "pipe", !.at = "decrypt",
                                                       !.err = DecryptErr(th[t].buf, key[1])]]
       ELSE Goto(t, [th[t] EXCEPT !.pc = "pipe_d", !.buf = DecryptBlob(th[t].buf, key[1])])
    /\ UNCHANGED <<fs, path, key, pw, lock, idx, docs, opened, actors, search, faults, first, locker>>

\* out, err := DecompressBlob(dec); the caller keeps raw
DecompressCall(t) ==
    /\ th[t].pc = "pipe_d"
    /\ th' = [th EXCEPT ![t].pc = "idle"]
    /\ res' = [res EXCEPT ![t] =
                  IF DecompressOk(th[t].buf)
                  THEN [NoRes EXCEPT !.op = "pipe", !.ok = TRUE, !.data = DecompressBlob(th[t].buf)]
                  ELSE [NoRes EXCEPT !.op = "pipe", !.at = "decompress", !.err = "gzip"]]
    /\ UNCHANGED <<fs, path, key, pw, lock, idx, docs, opened, actors, search, faults, first, locker>>

NextPipe == CompressCall(1) \/ EncryptCall(1) \/ DecryptCall(1) \/ DecompressCall(1)
SpecPipe == InitPipe /\ [][NextPipe]_vars

\* C21: under every key configuration, opening what EncryptBlob sealed gives
\* back the sealed bytes, and decompressing what CompressBlob produced gives
\* back the raw bytes (empty and already compressed ones included), without
\* error.
C21_PipelineRoundTrip ==
    /\ th[1].pc = "pipe_d" => th[1].buf = CompressBlob(th[1].data)
    /\ res[1].op = "pipe" => /\ res[1].err = ""
                             /\ th[1].pc = "idle" => res[1].data = th[1].data
C21_Witness ==
    /\ res[1].op = "pipe" /\ th[1].pc = "idle"
    /\ res[1].ok /\ res[1].data \in {CompressBlob(d) : d \in Payloads}
    /\ Len(key[1]) = KeyLen

(* ------------------------------------------------------------------ *)
(* The inventory of a store whose sidecars may be missing or cut short  *)
(* ------------------------------------------------------------------ *)
\* how much of the sidecar a failing os.WriteFile has written: nothing, half
\* of it, or all but the last byte
TornLengths(b) == {0, Len(b) \div 2, Len(b) - 1}

\* os.WriteFile(metaFile) creates the file, fails part-way and leaves the
\* bytes written so far; PutBlob returns the error
PutWriteMetaTorn(t) ==
    LET i  == Inst(t)
        mb == MarshalIndent(SidecarRecord(th[t].meta, th[t].id, th[t].data))
    IN
    /\ t \in Threads /\ th[t].pc = "put_meta"
    /\ faults < MaxFaults
    /\ WriteFileOk(fs, MetaPath(th[t].full))
    /\ \E n \in TornLengths(mb) : fs' = WriteFile(fs, MetaPath(th[t].full), SubSeq(mb, 1, n))
    /\ Return(t, PutRes(t, "io", "meta"))
    /\ lock' = Unlock(i)
    /\ faults' = faults + 1
    /\ UNCHANGED <<path, key, pw, idx, docs, opened, actors, search, first, locker>>

NextInventory ==
    \/ Create(1)
    \/ Put(1) \/ PutStat(1) \/ PutWriteBlob(1) \/ PutWriteMeta(1) \/ PutWriteMetaTorn(1)
    \/ PutReturn(1)
    \/ Delete(1) \/ DeleteRemoveBlob(1) \/ DeleteRemoveMeta(1)
    \/ Exists(1) \/ List(1)
SpecInventory == Init /\ [][NextInventory]_vars

\* the object files under root whose sidecar is present and parses
Listable(f, root) ==
    {q \in BlobFiles(f, root) :
        IsFile(f, MetaPath(q)) /\ Unmarshal(ReadFile(f, MetaPath(q))).ok}

\* C22: inventory skip semantics. InspectStore returns without error exactly
\* one record for every object file whose sidecar is present and parses, the
\* record that sidecar holds, and none for an object file whose sidecar is
\* missing or does not parse; when no write has failed, the content hashes of
\* the records are the ids for which ExistsBlob is true.
C22_InventorySkips ==
    (th[1].pc = "idle" /\ res[1].op = "inspect") =>
        LET list == res[1].list
            good == Listable(fs, path[1])
        IN /\ res[1].err = ""
           /\ Len(list) = Cardinality(good)
           /\ \A q \in good :
                 Cardinality({n \in 1..Len(list) :
                                 list[n] = Unmarshal(ReadFile(fs, MetaPath(q))).meta}) = 1
           /\ faults = 0 => {list[n].BlobHash : n \in 1..Len(list)} = Present(1)

\* an inventory of one record, taken of a store that holds two objects, one
\* of them with a sidecar that does not parse
C22_Witness ==
    /\ th[1].pc = "idle" /\ res[1].op = "inspect" /\ res[1].err = ""
    /\ Len(res[1].list) = 1
    /\ Cardinality(BlobFiles(fs, path[1])) = 2
    /\ \E q \in BlobFiles(fs, path[1]) :
          IsFile(fs, MetaPath(q)) /\ ~Unmarshal(ReadFile(fs, MetaPath(q))).ok

\* the directories Stats visits: the root and every directory below it
Visited(f, root) == {p \in f.dirs \cup {root} : Under(p, root)}

\* the depth of directory p below root (the root is at depth 0)
Depth(p, root) == Cardinality({n \in (Len(root) + 1)..Len(p) : p[n] = Slash})

\* C23: per-level statistics. A Stats call that returns without error
\* reports as MaxCountPerLevel[d] the largest number of entries (files and
\* subdirectories) of a directory at depth d, for every depth down to the
\* deepest directory, and as AverageCountPerLevel the total number of entries
\* observed divided by the number of directories visited at any depth (no write
\* having failed before).
C23_PerLevelStats ==
    (th[1].pc = "idle" /\ res[1].op = "stats" /\ res[1].err = "" /\ faults = 0) =>
        LET st    == res[1].stats
            dirs  == Visited(fs, path[1])
            total == Cardinality({q \in fs.dirs \cup DOMAIN fs.files :
                                     Under(q, path[1]) /\ q # path[1]})
        IN /\ Len(st.MaxCountPerLevel) = 1 + Max({Depth(p, path[1]) : p \in dirs})
           /\ \A d \in 1..Len(st.MaxCountPerLevel) :
                 st.MaxCountPerLevel[d] =
                     Max({Cardinality(Children(fs, p)) :
                              p \in {q \in dirs : Depth(q, path[1]) = d - 1}})
           /\ IF st.AverageCountPerLevel.den = 0 THEN total = 0
              ELSE st.AverageCountPerLevel.num * Cardinality(dirs)
                       = total * st.AverageCountPerLevel.den

\* C24: CreateStore is idempotent. A CreateStore on a root that exists as a
\* directory returns no error, and it neither removes nor alters a stored
\* object file or sidecar.
C24_CreateIdempotent ==
    [][\A t \in Threads :
         (Returns(t, "create") /\ IsDir(fs, StoreRoot)) =>
             /\ res'[t].err = ""
             /\ \A q \in DOMAIN fs.files :
                   (Under(q, StoreRoot) /\ Ext(q) \in {DotBlob, DotMeta}) =>
                       IsFile(fs', q) /\ fs'.files[q] = fs.files[q]]_vars

(* ------------------------------------------------------------------ *)
(* Opening and creating a store at a path that is missing, a file or    *)
(* a directory                                                          *)
(* ------------------------------------------------------------------ *)
\* what the store path is before the first call: nothing, a file, an empty
\* directory, or a directory whose index.bleve has lost its index_meta.json
RootStates ==
    {EmptyFS, WriteFile(EmptyFS, StoreRoot, <<>>), MkdirAll(EmptyFS, StoreRoot),
     MkdirAll(EmptyFS, IndexPath(StoreRoot))}

InitOpen ==
    /\ fs \in RootStates
    /\ path = [i \in Insts |-> <<>>]
    /\ key = [i \in Insts |-> <<>>]
    /\ pw = [made |-> <<>>, inst |-> [i \in Insts |-> <<>>]]
    /\ lock = [i \in Insts |-> [w |-> 0, r |-> {}]]
    /\ idx = [i \in Insts |-> FALSE]
    /\ docs = <<>>
    /\ opened = [i \in Insts |-> FALSE]
    /\ actors = (1 :> 1)
    /\ th = [t \in {1} |-> Idle]
    /\ res = [t \in {1} |-> NoRes]
    /\ search \in BOOLEAN
    /\ faults = 0
    /\ first = [id \in Ids |-> NoFirst]
    /\ locker = [id \in Ids |-> NoLocker]

NextOpen == CreateAny(1) \/ Open(1) \/ Leave(1) \/ Exists(1)
SpecOpen == InitOpen /\ [][NextOpen]_vars

\* the search-enabled engine finds an index.bleve under root that bleve.Open
\* refuses
IndexUnusable(f, root) == search /\ StatOk(f, IndexPath(root)) /\ ~OpenIndexOk(f, root)

MatchAll == <<42>>
Queries == {MatchAll, MetaA.Name}
Matches(doc, q) == q = MatchAll \/ doc.Name = q

\* s.index.Search: the ids of the matching documents (bleve orders them by
\* score; here by id)
Hits(d, q) == SortNames({id \in DOMAIN d : Matches(d[id], q)})

\* GetBlob(blobID) returns no error: both files read, the bytes open under
\* the instance's key, the sidecar parses
GetOk(f, i, blobID) ==
    LET full == FullPath(i, blobID) IN
    /\ ReadFileOk(f, full)
    /\ DecryptErr(ReadFile(f, full), key[i]) = ""
    /\ DecompressOk(DecryptBlob(ReadFile(f, full), key[i]))
    /\ ReadFileOk(f, MetaPath(full))
    /\ Unmarshal(ReadFile(f, MetaPath(full))).ok

\* a conversion loop that returns every hit, with an empty record for a hit
\* whose GetBlob fails
RECURSIVE ResultsUnfiltered(_, _, _)
ResultsUnfiltered(f, i, hits) ==
    IF hits = <<>> THEN <<>>
    ELSE <<[BlobID |-> Head(hits),
            Metadata |-> IF GetOk(f, i, Head(hits))
                         THEN Unmarshal(ReadFile(f, MetaPath(FullPath(i, Head(hits))))).meta
                         ELSE ZeroMeta]>>
         \o ResultsUnfiltered(f, i, Tail(hits))

\* the conversion loop: a hit whose GetBlob fails is skipped
RECURSIVE Results(_, _, _)
Results(f, i, hits) ==
    IF hits = <<>> THEN <<>>
    ELSE IF ~GetOk(f, i, Head(hits)) THEN Results(f, i, Tail(hits))
    ELSE <<[BlobID |-> Head(hits),
            Metadata |-> Unmarshal(ReadFile(f, MetaPath(FullPath(i, Head(hits))))).meta]>>
         \o Results(f, i, Tail(hits))

\* the results SearchWithOptions returns for query q
SearchResults(f, i, q) == Results(f, i, Hits(docs, q))

\* Search(query): an error without an index; else the hits that GetBlob can
\* read (each GetBlob takes and releases the read lock)
SearchWithOptions(t, q) ==
    LET i == Inst(t) IN
    /\ t \in Threads /\ th[t].pc = "idle"
    /\ search
    /\ IF ~idx[i]
       THEN Return(t, [NoRes EXCEPT !.op = "search", !.err = "noindex"])
       ELSE /\ RFree(i)
            /\ Return(t, [NoRes EXCEPT !.op = "search", !.list = SearchResults(fs, i, q)])
    /\ UNCHANGED <<fs, path, key, pw, lock, idx, docs, opened, actors, search, faults, first, locker>>

Search(t) == \E q \in Queries : t \in Threads /\ opened[Inst(t)] /\ SearchWithOptions(t, q)

(* ------------------------------------------------------------------ *)
(* The search index refuses a document or a removal                     *)
(* ------------------------------------------------------------------ *)
\* a PutBlob that returns the error of s.index.Index
PutReturnIndexError(t) ==
    LET i == Inst(t) IN
    /\ t \in Threads /\ th[t].pc = "put_ret"
    /\ search /\ idx[i]
    /\ lock' = Unlock(i)
    /\ Return(t, PutRes(t, "index", "index"))
    /\ UNCHANGED <<fs, path, key, pw, idx, docs, opened, actors, search, faults, first, locker>>

\* PutBlob's last step when s.index.Index returns an error: the warning is
\* printed, the index keeps what it had, and blobID is returned
PutReturnIndexFails(t) ==
    LET i == Inst(t) IN
    /\ t \in Threads /\ th[t].pc = "put_ret"
    /\ search /\ idx[i]
    /\ lock' = Unlock(i)
    /\ Return(t, PutRes(t, "", ""))
    /\ first' = IF th[t].id \in DOMAIN first /\ ~first[th[t].id].set
                THEN [first EXCEPT ![th[t].id] =
                         [first[th[t].id] EXCEPT !.set = TRUE, !.stored = th[t].wrote = 2,
                                                 !.names = Names(th[t].meta)]]
                ELSE first
    /\ UNCHANGED <<fs, path, key, pw, idx, docs, opened, actors, search, faults, locker>>

\* DeleteBlob's first step when s.index.Delete returns an error: the warning
\* is printed, the document stays, and the files are removed next
DeleteBlobIndexFails(t, blobID) ==
    LET i == Inst(t) IN
    /\ t \in Threads /\ th[t].pc = "idle"
    /\ search /\ idx[i]
    /\ Goto(t, [Idle EXCEPT !.pc = "del_blob", !.id = blobID, !.full = FullPath(i, blobID),
                            !.after = IF res[t].op = "delete" /\ res[t].id = blobID /\ res[t].n = 2
                                      THEN "delete" ELSE ""])
    /\ Forget(blobID)
    /\ UNCHANGED <<fs, path, key, pw, lock, idx, docs, opened, actors, search, faults>>

DeleteUnindexed(t) ==
    \E id \in Ids : t \in Threads /\ opened[Inst(t)] /\ DeleteBlobIndexFails(t, id)

NextNotify ==
    \/ Create(1)
    \/ Put(1) \/ PutStat(1) \/ PutWriteBlob(1) \/ PutWriteMeta(1)
    \/ PutReturn(1) \/ PutReturnIndexFails(1)
    \/ Delete(1) \/ DeleteUnindexed(1) \/ DeleteRemoveBlob(1) \/ DeleteRemoveMeta(1)
    \/ Exists(1) \/ Search(1)
SpecNotify == Init /\ [][NextNotify]_vars

\* C26: best-effort notifications. Whether or not the index takes the
\* document, the last step of a PutBlob returns the id without error and
\* leaves every file as it is; whether or not the index drops the document, a
\* DeleteBlob touches no file before its removals, returns no error, and
\* leaves neither the blob file nor the sidecar.
C26_IndexFailureIgnored ==
    [][\A t \in Threads :
         /\ (th[t].pc = "put_ret" /\ th'[t].pc = "idle") =>
                /\ res'[t] = PutRes(t, "", "")
                /\ fs' = fs
         /\ (th[t].pc = "idle" /\ th'[t].pc = "del_blob") => fs' = fs
         /\ (th[t].pc = "del_meta" /\ th'[t].pc = "idle") =>
                /\ res'[t].op = "delete" /\ res'[t].err = ""
                /\ ~IsFile(fs', th[t].full) /\ ~IsFile(fs', MetaPath(th[t].full))]_vars

\* a PutBlob has returned the id of a stored object that the open index
\* does not hold
C26_Witness ==
    /\ search /\ idx[1] /\ th[1].pc = "idle"
    /\ res[1].op = "put" /\ res[1].err = "" /\ res[1].wrote = 2
    /\ res[1].id \notin DOMAIN docs
    /\ IsFile(fs, FullPath(1, res[1].id)) /\ IsFile(fs, MetaPath(FullPath(1, res[1].id)))

\* C27: same passphrase required. When the store was created with a
\* passphrase p1 and the instance holds it under another passphrase p2, a
\* GetBlob of an object that was sealed under p1's key returns an error.
C27_OtherPassphraseFails ==
    \A p1 \in Passphrases : \A p2 \in Passphrases \ {p1} :
        LET full == FullPath(1, res[1].id) IN
        (/\ th[1].pc = "idle" /\ res[1].op = "get"
         /\ pw.made = << <<p1>> >> /\ pw.inst[1] = <<p2>>
         /\ IsFile(fs, full) /\ Opens(fs, full, KeyFromPassword(p1))) =>
            res[1].err # ""

MaxIdLen == 9
TestLongId == <<98, 97, 55, 56, 49, 54, 98, 102, 56, 102, 48, 49, 99, 102, 101, 97, 52, 49, 52, 49, 52, 48, 100, 101, 53>>
TestLongPath == <<98, 97, 47, 55, 56, 49, 47, 54, 98, 102, 47, 56, 102, 48, 49, 99, 102, 101, 97, 52, 49, 52, 49, 52, 48, 100, 101, 53, 46, 98, 108, 111, 98>>
TestShortId == <<97, 98, 99>>
ShardIds ==
    UNION {[1..n -> {97, 98}] : n \in 0..MaxIdLen} \cup {TestLongId, TestShortId}

InitShard ==
    /\ fs = EmptyFS
    /\ path = [i \in Insts |-> StoreRoot]
    /\ key = [i \in Insts |-> <<>>]
    /\ pw = [made |-> <<>>, inst |-> [i \in Insts |-> <<>>]]
    /\ lock = [i \in Insts |-> [w |-> 0, r |-> {}]]
    /\ idx = [i \in Insts |-> FALSE]
    /\ docs = <<>>
    /\ opened = [i \in Insts |-> FALSE]
    /\ actors = (1 :> 1)
    /\ \E id \in ShardIds : th = [t \in {1} |-> [Idle EXCEPT !.id = id]]
    /\ res = [t \in {1} |-> NoRes]
    /\ search = FALSE
    /\ faults = 0
    /\ first = [id \in Ids |-> NoFirst]
    /\ locker = [id \in Ids |-> NoLocker]

\* relPath := BlobIDToPath(blobID); fullPath := filepath.Join(s.path, relPath);
\* metaFile := fullPath + ".meta"
ShardCall(t) ==
    /\ th[t].pc = "idle" /\ res[t].op = ""
    /\ res' = [res EXCEPT ![t] =
                  [NoRes EXCEPT !.op = "path", !.id = th[t].id,
                                !.data = BlobIDToPath(th[t].id),
                                !.list = <<FullPath(Inst(t), th[t].id),
                                           MetaPath(FullPath(Inst(t), th[t].id))>>]]
    /\ UNCHANGED <<fs, path, key, pw, lock, idx, docs, opened, th, actors, search, faults, first, locker>>

NextShard == ShardCall(1)
SpecShard == InitShard /\ [][NextShard]_vars

\* the positions of the separators in p
Slashes(p) == {n \in 1..Len(p) : p[n] = Slash}

CutCall(t) ==
    /\ th[t].pc = "sealed"
    /\ \E n \in 0..(Len(th[t].buf) - 1) :
          Goto(t, [th[t] EXCEPT !.buf = SubSeq(th[t].buf, 1, n)])
    /\ UNCHANGED <<fs, path, key, pw, lock, idx, docs, opened, actors, search, faults, first, locker>>

NextShort == SealCall(1) \/ CutCall(1) \/ OpenCall(1)
SpecShort == InitPipe /\ [][NextShort]_vars

\* C31: truncated ciphertext. With a key, DecryptBlob of an input shorter
\* than the nonce returns an error and no bytes; with no key, DecryptBlob
\* returns every input unchanged and no error.
C31_ShortInputRefused ==
    (th[1].pc = "idle" /\ res[1].op = "decrypt") =>
        /\ (Len(key[2]) > 0 /\ Len(th[1].buf) < NonceSize) =>
               (res[1].err # "" /\ ~res[1].ok /\ res[1].data = <<>>)
        /\ Len(key[2]) = 0 =>
               (res[1].err = "" /\ res[1].ok /\ res[1].data = th[1].buf)

\* DecryptBlob has refused a nonce cut by one byte
C31_Witness ==
    /\ th[1].pc = "idle" /\ res[1].op = "decrypt"
    /\ Len(key[2]) > 0 /\ Len(th[1].buf) = NonceSize - 1
    /\ res[1].err = "short"

\* C32: put/delete race. When a PutBlob of content b that found no blob file
\* and wrote its two files, and a DeleteBlob of b's id on the same instance,
\* have both returned, the blob file and the sidecar of the id are both present
\* or both absent.
C32_PutDeleteRace ==
    \A t \in Threads : \A u \in Threads \ {t} :
        ( /\ Inst(u) = Inst(t)
          /\ th[t].pc = "idle" /\ res[t].op = "put" /\ res[t].err = "" /\ res[t].wrote = 2
          /\ th[u].pc = "idle" /\ res[u].op = "delete" /\ res[u].id = res[t].id ) =>
            LET full == FullPath(Inst(t), res[t].id)
            IN IsFile(fs, full) <=> IsFile(fs, MetaPath(full))

\* no DeleteBlob and no PurgeStore has been called so far
NoRemoval ==
    \A u \in Threads :
        /\ th[u].pc \notin {"del_blob", "del_meta", "purge_rm"}
        /\ res[u].op \notin {"delete", "purge"}

\* C33: get versus put. While the only writers of an instance are PutBlob
\* calls, a GetBlob(id), whatever PutBlob of content with that id runs beside
\* it, returns not-found for the blob file or the plaintext with the record of
\* a put of it, and it never reads a blob file whose sidecar is not written.
C33_GetSeesWholePut ==
    NoRemoval =>
        \A t \in Threads :
            /\ th[t].pc = "get_meta" => IsFile(fs, MetaPath(th[t].full))
            /\ (th[t].pc = "idle" /\ res[t].op = "get") =>
                  \/ res[t].err = "notexist" /\ res[t].at = "blob"
                  \/ /\ res[t].err = ""
                     /\ GenerateBlobID(res[t].data) = res[t].id
                     /\ \E m \in Metas :
                           res[t].meta = SidecarRecord(m, res[t].id, res[t].data)

\* a GetBlob(id) has returned not-found while a PutBlob of new content with
\* that id, called before it, has not yet taken the lock
C33_Witness ==
    /\ NoRemoval
    /\ th[1].pc = "put_lock" /\ ~IsFile(fs, th[1].full)
    /\ th[2].pc = "idle" /\ res[2].op = "get" /\ res[2].id = th[1].id
    /\ res[2].err = "notexist"

\* C34: state unchanged on failed open. An OpenStore that returns an error
\* because the path is missing or is not a directory leaves the root path and
\* the key of its instance as they were before the call.
C34_FailedOpenKeepsState ==
    [][\A t \in Threads :
         (Returns(t, "open") /\ res'[t].err \in {"notexist", "notdir"}) =>
             /\ path'[Inst(t)] = path[Inst(t)]
             /\ key'[Inst(t)] = key[Inst(t)]]_vars

(* ------------------------------------------------------------------ *)
(* One store under changing key configurations                          *)
(* ------------------------------------------------------------------ *)
\* no key, the empty passphrase, and the passphrase "pw"
MixOpts == { <<>>, << <<>> >>, << <<112, 119>> >> }
InitMix == InitWith(1 :> 1, MaxFaults)
CreateMix(t) == \E k \in MixOpts : t \in Threads /\ ~opened[Inst(t)] /\ CreateStore(t, StoreRoot, k)
OpenMix(t)   == \E k \in MixOpts : t \in Threads /\ OpenStore(t, StoreRoot, k)
NextMix ==
    \/ CreateMix(1) \/ OpenMix(1) \/ Leave(1)
    \/ PutAs(1, MetaA) \/ PutStat(1) \/ PutWriteBlob(1) \/ PutWriteMeta(1) \/ PutReturn(1)
    \/ Get(1) \/ GetReadMeta(1)
SpecMix == InitMix /\ [][NextMix]_vars

\* C35: integrity under key mismatch. Whatever key configuration the blob
\* file of an id was written under and whatever configuration the instance
\* holds at the get (no key, the empty passphrase, a passphrase), a GetBlob
\* that returns without error returns the payload whose SHA-256 is the id, and
\* a GetBlob that returns an error returns no bytes.
C35_IntegrityUnderKeyMismatch ==
    \A t \in Threads :
        (th[t].pc = "idle" /\ res[t].op = "get") =>
            IF res[t].err = ""
            THEN \E d \in Payloads : GenerateBlobID(d) = res[t].id /\ res[t].data = d
            ELSE res[t].data = <<>>

\* a get with no key has refused a blob file sealed under a passphrase, whose
\* sidecar is present
C35_Witness ==
    /\ th[1].pc = "idle" /\ res[1].op = "get" /\ res[1].err = "gzip"
    /\ key[1] = <<>>
    /\ \E k \in MixOpts \ {<<>>} : Opens(fs, FullPath(1, res[1].id), KeyOf(k))
    /\ IsFile(fs, MetaPath(FullPath(1, res[1].id)))

\* C36: index agrees with sidecar. In the search-enabled engine, between
\* calls, the document the index holds for an id carries the name, uri and
\* owner of the id's sidecar, and the return of a PutBlob that found the blob
\* file present leaves the index as it is (stated for runs in which no write
\* has failed).
C36_IndexAgreesWithSidecar ==
    /\ []((Quiet /\ faults = 0) =>
            \A id \in DOMAIN docs : \A i \in Insts :
                LET mf == MetaPath(FullPath(i, id)) IN
                (opened[i] /\ idx[i] /\ IsFile(fs, mf) /\ Unmarshal(ReadFile(fs, mf)).ok) =>
                    Names(docs[id]) = Names(Unmarshal(ReadFile(fs, mf)).meta))
    /\ [][\A t \in Threads : (PutReturns(t) /\ th[t].dup /\ faults = 0) => docs' = docs]_vars

\* the path p holds in this step what it held before: the same file or none
SameAt(p) ==
    /\ IsFile(fs', p) <=> IsFile(fs, p)
    /\ IsFile(fs, p) => ReadFile(fs', p) = ReadFile(fs, p)

\* C37: operations local to their id. No step of a PutBlob of content with id
\* X or of a DeleteBlob(X) creates, changes or removes the blob file or the
\* sidecar of another id Y; and a step of DeleteBlob(X) removes no file but
\* the blob file and the sidecar of X, writes none, and leaves every directory,
\* the shard directories of X included.
C37_LocalToId ==
    [][\A t \in Threads : \A x \in AllIds :
         LET full == FullPath(Inst(t), x) IN
         /\ (PutSteps(t, full) \/ DeleteSteps(t, full)) =>
                \A y \in AllIds \ {x} :
                    /\ SameAt(FullPath(Inst(t), y))
                    /\ SameAt(MetaPath(FullPath(Inst(t), y)))
         /\ DeleteSteps(t, full) =>
                /\ fs'.dirs = fs.dirs
                /\ \A p \in (DOMAIN fs.files \cup DOMAIN fs'.files) \ {full, MetaPath(full)} :
                       SameAt(p)]_vars

\* a DeleteBlob has removed the two files of a stored id and returned, the
\* shard directory of the id is still there, and another id's blob file and
\* sidecar are in place
C37_Witness ==
    \E t \in Threads : \E y \in Ids \ {res[t].id} :
        /\ th[t].pc = "idle" /\ res[t].op = "delete" /\ res[t].n = 2
        /\ IsDir(fs, Dir(FullPath(Inst(t), res[t].id)))
        /\ Children(fs, Dir(FullPath(Inst(t), res[t].id))) = {}
        /\ IsFile(fs, FullPath(Inst(t), y)) /\ IsFile(fs, MetaPath(FullPath(Inst(t), y)))

\* thread t takes a step of a GetBlob, ExistsBlob, Stats or InspectStore call
ReadSteps(t) ==
    \/ th[t].pc = "idle" /\ th'[t].pc = "get_meta"
    \/ th[t].pc = "get_meta" /\ th'[t] # th[t]
    \/ th[t].pc = "idle" /\ \E op \in {"get", "exists", "stats", "inspect"} : Returns(t, op)

\* C38: read-only operations. No step of a GetBlob, ExistsBlob, Stats or
\* InspectStore call, whether the call returns a result or an error, creates,
\* changes or removes a file or a directory.
C38_ReadOnly ==
    [][\A t \in Threads : ReadSteps(t) => fs' = fs]_vars

\* a GetBlob has failed on a blob file whose sidecar is absent, and the blob
\* file is still there
C38_Witness ==
    \E t \in Threads :
        /\ th[t].pc = "idle" /\ res[t].op = "get"
        /\ res[t].err = "notexist" /\ res[t].at = "meta"
        /\ IsFile(fs, FullPath(Inst(t), res[t].id))
        /\ ~IsFile(fs, MetaPath(FullPath(Inst(t), res[t].id)))

(* ------------------------------------------------------------------ *)
(* Stats and InspectStore on one store                                  *)
(* ------------------------------------------------------------------ *)
\* one caller puts, with sidecar writes that may fail or tear, deletes, and
\* takes the statistics and the inventory of the store
NextCount == NextInventory \/ Tally(1)
SpecCount == Init /\ [][NextCount]_vars

\* C39: inventory never exceeds object count. When Stats and InspectStore are
\* called one after the other on a store, in either order and without error,
\* the number of records InspectStore returns is at most the TotalBlobCount
\* Stats reports, and the two are equal exactly when every blob file under the
\* root has a sidecar that is present and parses.
C39_InventoryWithinCount ==
    [][\A t \in Threads :
         LET whole == Listable(fs, path[Inst(t)]) = BlobFiles(fs, path[Inst(t)]) IN
         /\ (res[t].op = "stats" /\ res[t].err = "" /\ Returns(t, "inspect")
                /\ res'[t].err = "") =>
                /\ Len(res'[t].list) <= res[t].stats.TotalBlobCount
                /\ (Len(res'[t].list) = res[t].stats.TotalBlobCount) <=> whole
         /\ (res[t].op = "inspect" /\ res[t].err = "" /\ Returns(t, "stats")
                /\ res'[t].err = "") =>
                /\ Len(res[t].list) <= res'[t].stats.TotalBlobCount
                /\ (Len(res[t].list) = res'[t].stats.TotalBlobCount) <=> whole]_vars

\* Stats has counted two objects in a store where one of the two blob files
\* has no sidecar, so that InspectStore lists one record
C39_Witness ==
    /\ th[1].pc = "idle" /\ res[1].op = "stats" /\ res[1].err = ""
    /\ res[1].stats.TotalBlobCount = 2
    /\ Cardinality(Listable(fs, path[1])) = 1
    /\ \E q \in BlobFiles(fs, path[1]) : ~IsFile(fs, MetaPath(q))

====
